---- MODULE Spec2Model ----
(***************************************************************************)
(* Battle animations of pokete (src/pokete/classes/battle_animations.py).  *)
(*                                                                         *)
(* The program is sequential.  A run is one call made by the game: either  *)
(* one of the three BattleAnimator operations, or play() of one primitive  *)
(* animator.  The surface (scrap_engine map) is the environment: add and   *)
(* move fail when the target cell is outside the map, and may fail inside  *)
(* it (at most MaxFails times in a run); every surface operation issued is *)
(* appended to log.                                                        *)
(*                                                                         *)
(* Numbers with a fractional part are kept as integers: attack factors and *)
(* effectiveness in tenths (1.3 is 13), durations in hundredths of a       *)
(* second (0.5 is 50).  Glyphs are kept as Unicode code points.            *)
(***************************************************************************)
EXTENDS Integers, Sequences, FiniteSets, TLC

\* ------------------------------------------------------------- bounds
MapWidth == 7
MapHeight == 6
MaxFails == 1
MaxDamage == 12
MaxFlashes == 4
MaxParticles == 2
MaxCleanups == 2

VARIABLES
    pc,      \* position in the code
    call,    \* the call made by the game and its arguments
    ret,     \* where the running primitive returns to
    obj,     \* fields of the primitive animator being played
    loc,     \* locals of the running play()
    co,      \* locals of the running BattleAnimator operation
    placed,  \* tokens on the surface: token id -> <<x, y>>
    ntok,    \* number of se.Text objects created so far
    fails,   \* failures of in-bounds add/move so far
    log,     \* surface operations issued so far, in order
    prims,   \* primitive animators played so far, in order
    raised,  \* exception that left the call, or "none"
    out      \* value returned by a pure function, or "unset"

vars == <<pc, call, ret, obj, loc, co, placed, ntok, fails, log, prims, raised, out>>

\* ------------------------------------------------- visual config table
TYPE_EFFECT_CONFIG ==
    [t \in {"normal", "fire", "water", "plant", "electro", "ground", "stone",
            "ice", "flying", "poison", "undead"} |->
       CASE t = "normal"  -> [color |-> "white", particle_char |-> 42,
                              impact_chars |-> <<42, 120, 42>>, trail_char |-> 46]
         [] t = "fire"    -> [color |-> "red+thicc", particle_char |-> 126,
                              impact_chars |-> <<42, 8258, 10022, 42>>, trail_char |-> 176]
         [] t = "water"   -> [color |-> "blue", particle_char |-> 126,
                              impact_chars |-> <<111, 79, 111>>, trail_char |-> 183]
         [] t = "plant"   -> [color |-> "green", particle_char |-> 35,
                              impact_chars |-> <<10059, 42, 10059>>, trail_char |-> 183]
         [] t = "electro" -> [color |-> "yellow+thicc", particle_char |-> 9889,
                              impact_chars |-> <<42, 88, 42>>, trail_char |-> 45]
         [] t = "ground"  -> [color |-> "brown", particle_char |-> 9642,
                              impact_chars |-> <<9632, 9633, 9632>>, trail_char |-> 46]
         [] t = "stone"   -> [color |-> "grey", particle_char |-> 9679,
                              impact_chars |-> <<9670, 9671, 9670>>, trail_char |-> 183]
         [] t = "ice"     -> [color |-> "cyan", particle_char |-> 10052,
                              impact_chars |-> <<10022, 10023, 10022>>, trail_char |-> 42]
         [] t = "flying"  -> [color |-> "lightblue", particle_char |-> 126,
                              impact_chars |-> <<8776, 126, 8776>>, trail_char |-> 183]
         [] t = "poison"  -> [color |-> "purple", particle_char |-> 9760,
                              impact_chars |-> <<10007, 88, 10007>>, trail_char |-> 183]
         [] t = "undead"  -> [color |-> "purple+thicc", particle_char |-> 9760,
                              impact_chars |-> <<10013, 8224, 10013>>, trail_char |-> 183]]

\* TYPE_EFFECT_CONFIG[type_name]: an unknown key is a KeyError
get_type_effects_nodefault(type_name) ==
    IF type_name \in DOMAIN TYPE_EFFECT_CONFIG
    THEN TYPE_EFFECT_CONFIG[type_name]
    ELSE [error |-> "KeyError"]

get_type_effects(type_name) ==
    IF type_name \in DOMAIN TYPE_EFFECT_CONFIG
    THEN TYPE_EFFECT_CONFIG[type_name]
    ELSE TYPE_EFFECT_CONFIG["normal"]

\* ------------------------------------------------ intensity classifier
AnimationIntensity == [WEAK |-> 1, NORMAL |-> 2, STRONG |-> 3, CRITICAL |-> 4]

\* the thresholds compared with < instead of <=
get_animation_intensity_strict(damage, factor10) ==
    LET effective_power10 == damage * factor10
    IN  IF effective_power10 < 20 THEN "WEAK"
        ELSE IF effective_power10 < 50 THEN "NORMAL"
        ELSE IF effective_power10 < 100 THEN "STRONG"
        ELSE "CRITICAL"

get_animation_intensity(damage, factor10) ==
    LET effective_power10 == damage * factor10
    IN  IF effective_power10 <= 20 THEN "WEAK"
        ELSE IF effective_power10 <= 50 THEN "NORMAL"
        ELSE IF effective_power10 <= 100 THEN "STRONG"
        ELSE "CRITICAL"

\* ------------------------------------------------------------- surface
Max(a, b) == IF a >= b THEN a ELSE b
Min(a, b) == IF a <= b THEN a ELSE b
Abs(a) == IF a >= 0 THEN a ELSE -a

InBounds(x, y) == 0 <= x /\ x < MapWidth /\ 0 <= y /\ y < MapHeight

\* outcomes of an add or move whose target cell is (x, y)
Outcomes(x, y) ==
    IF ~InBounds(x, y) THEN {FALSE}
    ELSE IF fails < MaxFails THEN {TRUE, FALSE}
    ELSE {TRUE}

Failed(x, y, ok) == IF InBounds(x, y) /\ ~ok THEN fails + 1 ELSE fails

OpShow(p) == [op |-> "show", prim |-> p]
OpSleep(p, num, den) == [op |-> "sleep", prim |-> p, num |-> num, den |-> den]
OpAdd(p, tok, x, y, ok) ==
    [op |-> "add", prim |-> p, tok |-> tok, x |-> x, y |-> y, ok |-> ok]
OpMove(p, tok, dx, dy, ok) ==
    [op |-> "move", prim |-> p, tok |-> tok, dx |-> dx, dy |-> dy, ok |-> ok]
OpRemove(p, tok) == [op |-> "remove", prim |-> p, tok |-> tok]

Without(f, k) == [t \in DOMAIN f \ {k} |-> f[t]]
With(f, k, v) == [t \in DOMAIN f \cup {k} |-> IF t = k THEN v ELSE f[t]]

None == [none |-> TRUE]

\* the running primitive returns to its caller
Return == /\ pc' = ret
          /\ ret' = "done"

\* ------------------------------------------------------- DamageNumber
\* the critical marker also put on a miss
DamageNumberText_critfirst(damage, is_critical, is_heal) ==
    IF is_heal THEN "+" \o ToString(damage)
    ELSE IF is_critical THEN "!" \o ToString(damage) \o "!"
    ELSE IF damage = 0 THEN "MISS"
    ELSE ToString(damage)

\* __init__: the text shown
DamageNumberText(damage, is_critical, is_heal) ==
    IF is_heal THEN "+" \o ToString(damage)
    ELSE IF damage = 0 THEN "MISS"
    ELSE IF is_critical THEN "!" \o ToString(damage) \o "!"
    ELSE ToString(damage)

\* __init__: the colour of the text (the default of the color argument is white)
DamageNumberColor(damage, is_critical, is_heal) ==
    IF is_heal THEN "green+thicc"
    ELSE IF damage = 0 THEN "grey"
    ELSE IF is_critical THEN "yellow+thicc"
    ELSE "white"

DamageNumber(damage, x, y, is_critical, is_heal) ==
    [cls |-> "DamageNumber", damage |-> damage, x |-> x, y |-> y,
     is_critical |-> is_critical, is_heal |-> is_heal,
     text |-> DamageNumberText(damage, is_critical, is_heal),
     color |-> DamageNumberColor(damage, is_critical, is_heal),
     tok |-> ntok + 1, added |-> FALSE]

\* steps = max(3, int(duration / 0.15))
DamageNumberSteps(duration100) == Max(3, duration100 \div 15)

\* play() continuing after a failed first add
DamageNumber_add_ignorefail ==
    /\ pc = "dn_play"
    /\ ~(obj.damage = 0 /\ ~obj.is_heal)
    /\ \E ok \in Outcomes(obj.x, obj.y) :
         /\ log' = Append(log, OpAdd("DamageNumber", obj.tok, obj.x, obj.y, ok))
         /\ fails' = Failed(obj.x, obj.y, ok)
         /\ placed' = IF ok THEN With(placed, obj.tok, <<obj.x, obj.y>>) ELSE placed
         /\ obj' = [obj EXCEPT !.added = ok]
         /\ loc' = [duration100 |-> loc.duration100,
                    steps |-> DamageNumberSteps(loc.duration100), i |-> 0]
         /\ pc' = "dn_loop"
         /\ ret' = ret
    /\ UNCHANGED <<call, co, ntok, prims, raised, out>>

\* play(), lines 95-103: the non-miss path up to the first add
DamageNumber_add ==
    /\ pc = "dn_play"
    /\ ~(obj.damage = 0 /\ ~obj.is_heal)
    /\ \E ok \in Outcomes(obj.x, obj.y) :
         /\ log' = Append(log, OpAdd("DamageNumber", obj.tok, obj.x, obj.y, ok))
         /\ fails' = Failed(obj.x, obj.y, ok)
         /\ IF ok
            THEN /\ placed' = With(placed, obj.tok, <<obj.x, obj.y>>)
                 /\ obj' = [obj EXCEPT !.added = TRUE]
                 /\ loc' = [duration100 |-> loc.duration100,
                            steps |-> DamageNumberSteps(loc.duration100), i |-> 0]
                 /\ pc' = "dn_loop"
                 /\ ret' = ret
            ELSE /\ Return
                 /\ UNCHANGED <<placed, obj, loc>>
    /\ UNCHANGED <<call, co, ntok, prims, raised, out>>

\* the loop left as soon as the text is on row 1 or above it
DamageNumber_step_stopattop ==
    /\ pc = "dn_loop"
    /\ IF loc.i < loc.steps /\ obj.y > 1
       THEN LET pos == placed[obj.tok]
            IN  \E ok \in Outcomes(pos[1], pos[2] - 1) :
                  /\ log' = log \o <<OpShow("DamageNumber"),
                                     OpSleep("DamageNumber", loc.duration100, loc.steps),
                                     OpMove("DamageNumber", obj.tok, 0, -1, ok)>>
                  /\ fails' = Failed(pos[1], pos[2] - 1, ok)
                  /\ IF ok
                     THEN /\ placed' = [placed EXCEPT ![obj.tok] = <<pos[1], pos[2] - 1>>]
                          /\ obj' = [obj EXCEPT !.y = obj.y - 1]
                          /\ loc' = [loc EXCEPT !.i = loc.i + 1]
                          /\ pc' = "dn_loop"
                     ELSE /\ pc' = "dn_cleanup"
                          /\ UNCHANGED <<placed, obj, loc>>
       ELSE /\ pc' = "dn_cleanup"
            /\ UNCHANGED <<log, placed, obj, loc, fails>>
    /\ UNCHANGED <<call, ret, co, ntok, prims, raised, out>>

\* the rising text also swaying one column left or right at random
DamageNumber_step_sway ==
    /\ pc = "dn_loop"
    /\ IF loc.i < loc.steps
       THEN LET shown == log \o <<OpShow("DamageNumber"),
                                  OpSleep("DamageNumber", loc.duration100, loc.steps)>>
                pos == placed[obj.tok]
            IN  IF obj.y > 1
                THEN \E dx \in {-1, 1} : \E ok \in Outcomes(pos[1] + dx, pos[2] - 1) :
                       /\ log' = Append(shown, OpMove("DamageNumber", obj.tok, dx, -1, ok))
                       /\ fails' = Failed(pos[1] + dx, pos[2] - 1, ok)
                       /\ IF ok
                          THEN /\ placed' = [placed EXCEPT ![obj.tok] = <<pos[1] + dx, pos[2] - 1>>]
                               /\ obj' = [obj EXCEPT !.y = obj.y - 1]
                               /\ loc' = [loc EXCEPT !.i = loc.i + 1]
                               /\ pc' = "dn_loop"
                          ELSE /\ pc' = "dn_cleanup"
                               /\ UNCHANGED <<placed, obj, loc>>
                ELSE /\ log' = shown
                     /\ loc' = [loc EXCEPT !.i = loc.i + 1]
                     /\ pc' = "dn_loop"
                     /\ UNCHANGED <<placed, obj, fails>>
       ELSE /\ pc' = "dn_cleanup"
            /\ UNCHANGED <<log, placed, obj, loc, fails>>
    /\ UNCHANGED <<call, ret, co, ntok, prims, raised, out>>

\* the text moved up as long as it is below row 0
DamageNumber_step_totop ==
    /\ pc = "dn_loop"
    /\ IF loc.i < loc.steps
       THEN LET shown == log \o <<OpShow("DamageNumber"),
                                  OpSleep("DamageNumber", loc.duration100, loc.steps)>>
                pos == placed[obj.tok]
            IN  IF obj.y > 0
                THEN \E ok \in Outcomes(pos[1], pos[2] - 1) :
                       /\ log' = Append(shown, OpMove("DamageNumber", obj.tok, 0, -1, ok))
                       /\ fails' = Failed(pos[1], pos[2] - 1, ok)
                       /\ IF ok
                          THEN /\ placed' = [placed EXCEPT ![obj.tok] = <<pos[1], pos[2] - 1>>]
                               /\ obj' = [obj EXCEPT !.y = obj.y - 1]
                               /\ loc' = [loc EXCEPT !.i = loc.i + 1]
                               /\ pc' = "dn_loop"
                          ELSE /\ pc' = "dn_cleanup"
                               /\ UNCHANGED <<placed, obj, loc>>
                ELSE /\ log' = shown
                     /\ loc' = [loc EXCEPT !.i = loc.i + 1]
                     /\ pc' = "dn_loop"
                     /\ UNCHANGED <<placed, obj, fails>>
       ELSE /\ pc' = "dn_cleanup"
            /\ UNCHANGED <<log, placed, obj, loc, fails>>
    /\ UNCHANGED <<call, ret, co, ntok, prims, raised, out>>

\* play(), lines 106-114: one pass of the rising loop, or its end
DamageNumber_step ==
    /\ pc = "dn_loop"
    /\ IF loc.i < loc.steps
       THEN LET shown == log \o <<OpShow("DamageNumber"),
                                  OpSleep("DamageNumber", loc.duration100, loc.steps)>>
                pos == placed[obj.tok]
            IN  IF obj.y > 1
                THEN \E ok \in Outcomes(pos[1], pos[2] - 1) :
                       /\ log' = Append(shown, OpMove("DamageNumber", obj.tok, 0, -1, ok))
                       /\ fails' = Failed(pos[1], pos[2] - 1, ok)
                       /\ IF ok
                          THEN /\ placed' = [placed EXCEPT ![obj.tok] = <<pos[1], pos[2] - 1>>]
                               /\ obj' = [obj EXCEPT !.y = obj.y - 1]
                               /\ loc' = [loc EXCEPT !.i = loc.i + 1]
                               /\ pc' = "dn_loop"
                          ELSE /\ pc' = "dn_cleanup"
                               /\ UNCHANGED <<placed, obj, loc>>
                ELSE /\ log' = shown
                     /\ loc' = [loc EXCEPT !.i = loc.i + 1]
                     /\ pc' = "dn_loop"
                     /\ UNCHANGED <<placed, obj, fails>>
       ELSE /\ pc' = "dn_cleanup"
            /\ UNCHANGED <<log, placed, obj, loc, fails>>
    /\ UNCHANGED <<call, ret, co, ntok, prims, raised, out>>

\* _play_miss(), lines 120-124: the first add of the miss path
DamageNumber_miss_add ==
    /\ pc = "dn_play"
    /\ obj.damage = 0 /\ ~obj.is_heal
    /\ \E ok \in Outcomes(obj.x, obj.y) :
         /\ log' = Append(log, OpAdd("DamageNumber", obj.tok, obj.x, obj.y, ok))
         /\ fails' = Failed(obj.x, obj.y, ok)
         /\ IF ok
            THEN /\ placed' = With(placed, obj.tok, <<obj.x, obj.y>>)
                 /\ obj' = [obj EXCEPT !.added = TRUE]
                 /\ loc' = [i |-> 0, half |-> 0]
                 /\ pc' = "dn_miss"
                 /\ ret' = ret
            ELSE /\ Return
                 /\ UNCHANGED <<placed, obj, loc>>
    /\ UNCHANGED <<call, co, ntok, prims, raised, out>>

\* the oscillation left at the first failed move
DamageNumber_miss_step_break ==
    /\ pc = "dn_miss"
    /\ IF loc.i < 3
       THEN \E dx \in {-1, 1} :
              LET pos == placed[obj.tok]
              IN  \E ok \in Outcomes(pos[1] + dx, pos[2]) :
                    /\ log' = log \o <<OpShow("DamageNumber"),
                                       OpSleep("DamageNumber", 10, 1),
                                       OpMove("DamageNumber", obj.tok, dx, 0, ok)>>
                    /\ fails' = Failed(pos[1] + dx, pos[2], ok)
                    /\ IF ok
                       THEN /\ placed' = [placed EXCEPT ![obj.tok] = <<pos[1] + dx, pos[2]>>]
                            /\ loc' = IF loc.half = 0 THEN [loc EXCEPT !.half = 1]
                                      ELSE [i |-> loc.i + 1, half |-> 0]
                            /\ pc' = "dn_miss"
                       ELSE /\ pc' = "dn_cleanup"
                            /\ UNCHANGED <<placed, loc>>
       ELSE /\ pc' = "dn_cleanup"
            /\ UNCHANGED <<log, fails, placed, loc>>
    /\ UNCHANGED <<call, ret, obj, co, ntok, prims, raised, out>>

\* _play_miss(), lines 126-138: redraw, wait and one horizontal move whose
\* direction is random; two of these make one pass of the loop
DamageNumber_miss_step ==
    /\ pc = "dn_miss"
    /\ IF loc.i < 3
       THEN \E dx \in {-1, 1} :
              LET pos == placed[obj.tok]
              IN  \E ok \in Outcomes(pos[1] + dx, pos[2]) :
                    /\ log' = log \o <<OpShow("DamageNumber"),
                                       OpSleep("DamageNumber", 10, 1),
                                       OpMove("DamageNumber", obj.tok, dx, 0, ok)>>
                    /\ fails' = Failed(pos[1] + dx, pos[2], ok)
                    /\ placed' = IF ok THEN [placed EXCEPT ![obj.tok] = <<pos[1] + dx, pos[2]>>]
                                 ELSE placed
                    /\ loc' = IF loc.half = 0 THEN [loc EXCEPT !.half = 1]
                              ELSE [i |-> loc.i + 1, half |-> 0]
                    /\ pc' = "dn_miss"
       ELSE /\ pc' = "dn_cleanup"
            /\ UNCHANGED <<log, fails, placed, loc>>
    /\ UNCHANGED <<call, ret, obj, co, ntok, prims, raised, out>>

\* _cleanup() skipped: play() returns with the text left on the map
DamageNumber_cleanup_skip ==
    /\ pc = "dn_cleanup"
    /\ Return
    /\ UNCHANGED <<call, obj, loc, co, placed, ntok, fails, log, prims, raised, out>>

\* _cleanup() leaving added set after the removal
DamageNumber__cleanup_noreset ==
    IF obj.added
    THEN /\ log' = Append(log, OpRemove("DamageNumber", obj.tok))
         /\ placed' = Without(placed, obj.tok)
         /\ obj' = obj
    ELSE UNCHANGED <<log, placed, obj>>

\* _cleanup(), lines 142-149: the text removed if it was added, added reset
DamageNumber__cleanup ==
    IF obj.added
    THEN /\ log' = Append(log, OpRemove("DamageNumber", obj.tok))
         /\ placed' = Without(placed, obj.tok)
         /\ obj' = [obj EXCEPT !.added = FALSE]
    ELSE UNCHANGED <<log, placed, obj>>

\* play(), lines 116 and 140: _cleanup() and the return of play()
DamageNumber_cleanup ==
    /\ pc = "dn_cleanup"
    /\ DamageNumber__cleanup
    /\ Return
    /\ UNCHANGED <<call, loc, co, ntok, fails, prims, raised, out>>

DamageNumberPlay ==
    \/ DamageNumber_add
    \/ DamageNumber_step
    \/ DamageNumber_miss_add
    \/ DamageNumber_miss_step
    \/ DamageNumber_cleanup

\* ----------------------------------------------- StatusEffectIndicator
EFFECT_COLORS ==
    [e \in {"paralyzation", "sleep", "burning", "poison", "confusion", "freezing"} |->
       CASE e = "paralyzation" -> "yellow+thicc"
         [] e = "sleep"        -> "white"
         [] e = "burning"      -> "red+thicc"
         [] e = "poison"       -> "purple"
         [] e = "confusion"    -> "lightblue"
         [] e = "freezing"     -> "cyan"]

EFFECT_SYMBOLS ==
    [e \in {"paralyzation", "sleep", "burning", "poison", "confusion", "freezing"} |->
       CASE e = "paralyzation" -> 9889
         [] e = "sleep"        -> 90
         [] e = "burning"      -> 128293
         [] e = "poison"       -> 9760
         [] e = "confusion"    -> 63
         [] e = "freezing"     -> 10052]

\* line 182: EFFECT_SYMBOLS.get(effect_name, "*")
effect_symbol(effect_name) ==
    IF effect_name \in DOMAIN EFFECT_SYMBOLS THEN EFFECT_SYMBOLS[effect_name] ELSE 42

\* __init__: text is the sign followed by the symbol; an unknown effect
\* gets the symbol "*" and the colour white
StatusEffectIndicator(effect_name, x, y, is_applied) ==
    [cls |-> "StatusEffectIndicator", effect_name |-> effect_name, x |-> x, y |-> y,
     is_applied |-> is_applied,
     color |-> IF effect_name \in DOMAIN EFFECT_COLORS
               THEN EFFECT_COLORS[effect_name] ELSE "white",
     text |-> <<IF is_applied THEN "+" ELSE "-", effect_symbol(effect_name)>>,
     tok |-> ntok + 1, added |-> FALSE]

\* added set before the add, so that a failed add still leads to the removal
StatusEffectIndicator_add_flagfirst ==
    /\ pc = "se_play"
    /\ \E ok \in Outcomes(obj.x, obj.y) :
         /\ log' = Append(log, OpAdd("StatusEffectIndicator", obj.tok, obj.x, obj.y, ok))
         /\ fails' = Failed(obj.x, obj.y, ok)
         /\ IF ok
            THEN /\ placed' = With(placed, obj.tok, <<obj.x, obj.y>>)
                 /\ obj' = [obj EXCEPT !.added = TRUE]
                 /\ loc' = [duration100 |-> loc.duration100, i |-> 0]
                 /\ pc' = "se_loop"
                 /\ ret' = ret
            ELSE /\ obj' = [obj EXCEPT !.added = TRUE]
                 /\ pc' = "se_remove"
                 /\ ret' = ret
                 /\ UNCHANGED <<placed, loc>>
    /\ UNCHANGED <<call, co, ntok, prims, raised, out>>

\* play(), lines 194-198: the first add
StatusEffectIndicator_add ==
    /\ pc = "se_play"
    /\ \E ok \in Outcomes(obj.x, obj.y) :
         /\ log' = Append(log, OpAdd("StatusEffectIndicator", obj.tok, obj.x, obj.y, ok))
         /\ fails' = Failed(obj.x, obj.y, ok)
         /\ IF ok
            THEN /\ placed' = With(placed, obj.tok, <<obj.x, obj.y>>)
                 /\ obj' = [obj EXCEPT !.added = TRUE]
                 /\ loc' = [duration100 |-> loc.duration100, i |-> 0]
                 /\ pc' = "se_loop"
                 /\ ret' = ret
            ELSE /\ Return
                 /\ UNCHANGED <<placed, obj, loc>>
    /\ UNCHANGED <<call, co, ntok, prims, raised, out>>

\* the CoordinateError of move() not caught
StatusEffectIndicator_step_uncaught ==
    /\ pc = "se_loop"
    /\ IF loc.i < 3
       THEN LET pos == placed[obj.tok]
            IN  \E ok \in Outcomes(pos[1], pos[2] - 1) :
                  /\ log' = log \o <<OpShow("StatusEffectIndicator"),
                                     OpSleep("StatusEffectIndicator", loc.duration100, 6),
                                     OpMove("StatusEffectIndicator", obj.tok, 0, -1, ok)>>
                  /\ fails' = Failed(pos[1], pos[2] - 1, ok)
                  /\ IF ok
                     THEN /\ placed' = [placed EXCEPT ![obj.tok] = <<pos[1], pos[2] - 1>>]
                          /\ loc' = [loc EXCEPT !.i = loc.i + 1]
                          /\ pc' = "se_loop"
                          /\ UNCHANGED <<raised, ret>>
                     ELSE /\ pc' = "done"
                          /\ ret' = "done"
                          /\ raised' = "CoordinateError"
                          /\ UNCHANGED <<placed, loc>>
       ELSE /\ pc' = "se_remove"
            /\ UNCHANGED <<log, fails, placed, loc, raised, ret>>
    /\ UNCHANGED <<call, obj, co, ntok, prims, out>>

\* the loop going on after a failed move
StatusEffectIndicator_step_continue ==
    /\ pc = "se_loop"
    /\ IF loc.i < 3
       THEN LET pos == placed[obj.tok]
            IN  \E ok \in Outcomes(pos[1], pos[2] - 1) :
                  /\ log' = log \o <<OpShow("StatusEffectIndicator"),
                                     OpSleep("StatusEffectIndicator", loc.duration100, 6),
                                     OpMove("StatusEffectIndicator", obj.tok, 0, -1, ok)>>
                  /\ fails' = Failed(pos[1], pos[2] - 1, ok)
                  /\ placed' = IF ok THEN [placed EXCEPT ![obj.tok] = <<pos[1], pos[2] - 1>>]
                               ELSE placed
                  /\ loc' = [loc EXCEPT !.i = loc.i + 1]
                  /\ pc' = "se_loop"
       ELSE /\ pc' = "se_remove"
            /\ UNCHANGED <<log, fails, placed, loc>>
    /\ UNCHANGED <<call, ret, obj, co, ntok, prims, raised, out>>

\* play(), lines 200-206: one pass of the rising loop, or its end
StatusEffectIndicator_step ==
    /\ pc = "se_loop"
    /\ IF loc.i < 3
       THEN LET pos == placed[obj.tok]
            IN  \E ok \in Outcomes(pos[1], pos[2] - 1) :
                  /\ log' = log \o <<OpShow("StatusEffectIndicator"),
                                     OpSleep("StatusEffectIndicator", loc.duration100, 6),
                                     OpMove("StatusEffectIndicator", obj.tok, 0, -1, ok)>>
                  /\ fails' = Failed(pos[1], pos[2] - 1, ok)
                  /\ IF ok
                     THEN /\ placed' = [placed EXCEPT ![obj.tok] = <<pos[1], pos[2] - 1>>]
                          /\ loc' = [loc EXCEPT !.i = loc.i + 1]
                          /\ pc' = "se_loop"
                     ELSE /\ pc' = "se_remove"
                          /\ UNCHANGED <<placed, loc>>
       ELSE /\ pc' = "se_remove"
            /\ UNCHANGED <<log, fails, placed, loc>>
    /\ UNCHANGED <<call, ret, obj, co, ntok, prims, raised, out>>

\* play(), lines 208-212: the removal and the return
StatusEffectIndicator_remove ==
    /\ pc = "se_remove"
    /\ IF obj.added
       THEN /\ log' = Append(log, OpRemove("StatusEffectIndicator", obj.tok))
            /\ placed' = Without(placed, obj.tok)
       ELSE UNCHANGED <<log, placed>>
    /\ Return
    /\ UNCHANGED <<call, obj, loc, co, ntok, fails, prims, raised, out>>

StatusEffectIndicatorPlay ==
    \/ StatusEffectIndicator_add
    \/ StatusEffectIndicator_step
    \/ StatusEffectIndicator_remove

\* --------------------------------------------------------- ScreenShake
shake_amounts == [WEAK |-> 0, NORMAL |-> 1, STRONG |-> 2, CRITICAL |-> 3]

ScreenShake(intensity) == [cls |-> "ScreenShake", intensity |-> intensity]

\* one redraw and wait per unit of magnitude instead of two
ScreenShake_step_single ==
    /\ pc = "ss_play"
    /\ LET amount == IF obj.intensity \in DOMAIN shake_amounts
                     THEN shake_amounts[obj.intensity] ELSE 0
       IN  IF amount # 0 /\ loc.i < amount
           THEN /\ log' = log \o <<OpShow("ScreenShake"), OpSleep("ScreenShake", 3, 1)>>
                /\ loc' = [loc EXCEPT !.i = loc.i + 1]
                /\ UNCHANGED <<pc, ret>>
           ELSE /\ Return
                /\ UNCHANGED <<log, loc>>
    /\ UNCHANGED <<call, obj, co, placed, ntok, fails, prims, raised, out>>

\* play(), lines 230-236: the magnitude test, then one redraw and wait per pass
ScreenShake_step ==
    /\ pc = "ss_play"
    /\ LET amount == IF obj.intensity \in DOMAIN shake_amounts
                     THEN shake_amounts[obj.intensity] ELSE 0
       IN  IF amount # 0 /\ loc.i < amount * 2
           THEN /\ log' = log \o <<OpShow("ScreenShake"), OpSleep("ScreenShake", 3, 1)>>
                /\ loc' = [loc EXCEPT !.i = loc.i + 1]
                /\ UNCHANGED <<pc, ret>>
           ELSE /\ Return
                /\ UNCHANGED <<log, loc>>
    /\ UNCHANGED <<call, obj, co, placed, ntok, fails, prims, raised, out>>

\* ------------------------------------------------ EffectivityIndicator
EffectivityText(eff10) ==
    IF eff10 > 10 THEN "SUPER!" ELSE IF eff10 < 10 THEN "WEAK..." ELSE ""

EffectivityIndicator(x, y, eff10) ==
    [cls |-> "EffectivityIndicator", x |-> x, y |-> y, effectiveness10 |-> eff10,
     text |-> EffectivityText(eff10),
     color |-> IF eff10 > 10 THEN "green+thicc" ELSE IF eff10 < 10 THEN "red" ELSE "white",
     tok |-> ntok + 1, added |-> FALSE]

\* play(), lines 364-371: nothing for an empty text, else the add
EffectivityIndicator_add ==
    /\ pc = "ei_play"
    /\ IF obj.text = ""
       THEN /\ Return
            /\ UNCHANGED <<log, fails, placed, obj>>
       ELSE \E ok \in Outcomes(obj.x, obj.y) :
              /\ log' = Append(log, OpAdd("EffectivityIndicator", obj.tok, obj.x, obj.y, ok))
              /\ fails' = Failed(obj.x, obj.y, ok)
              /\ IF ok
                 THEN /\ placed' = With(placed, obj.tok, <<obj.x, obj.y>>)
                      /\ obj' = [obj EXCEPT !.added = TRUE]
                      /\ pc' = "ei_show"
                      /\ ret' = ret
                 ELSE /\ Return
                      /\ UNCHANGED <<placed, obj>>
    /\ UNCHANGED <<call, loc, co, ntok, prims, raised, out>>

\* play() returning after the wait without removing the label
EffectivityIndicator_show_noremove ==
    /\ pc = "ei_show"
    /\ log' = log \o <<OpShow("EffectivityIndicator"),
                       OpSleep("EffectivityIndicator", loc.duration100, 1)>>
    /\ Return
    /\ UNCHANGED <<call, obj, loc, co, placed, ntok, fails, prims, raised, out>>

\* play(), lines 373-380: redraw, wait, removal and the return
EffectivityIndicator_show ==
    /\ pc = "ei_show"
    /\ log' = log \o <<OpShow("EffectivityIndicator"),
                       OpSleep("EffectivityIndicator", loc.duration100, 1)>>
                  \o (IF obj.added THEN <<OpRemove("EffectivityIndicator", obj.tok)>>
                      ELSE <<>>)
    /\ placed' = IF obj.added THEN Without(placed, obj.tok) ELSE placed
    /\ Return
    /\ UNCHANGED <<call, obj, loc, co, ntok, fails, prims, raised, out>>

EffectivityIndicatorPlay ==
    \/ EffectivityIndicator_add
    \/ EffectivityIndicator_show

\* ------------------------------------------------------------ HitFlash
Ico(attrs, x, y, width, height) ==
    [attrs |-> attrs, x |-> x, y |-> y, width |-> width, height |-> height]

HitFlash(target_ico, type_name) ==
    [cls |-> "HitFlash", target_ico |-> target_ico,
     type_effects |-> get_type_effects(type_name)]

\* lines 252-257: the four corners just outside the icon
flash_positions(ico) ==
    << <<ico.x - 1, ico.y>>,
       <<ico.x + ico.width, ico.y>>,
       <<ico.x - 1, ico.y + ico.height - 1>>,
       <<ico.x + ico.width, ico.y + ico.height - 1>> >>

Removes(p, toks) == [j \in 1..Len(toks) |-> OpRemove(p, toks[j])]

WithoutAll(f, toks) == [t \in DOMAIN f \ {toks[j] : j \in 1..Len(toks)} |-> f[t]]

\* play(), lines 249-259: the attribute test and the corner positions; an
\* icon with x and y but no width or height is an AttributeError
HitFlash_begin ==
    /\ pc = "hf_play"
    /\ LET ico == obj.target_ico
       IN  IF "x" \notin ico.attrs \/ "y" \notin ico.attrs
           THEN /\ Return
                /\ UNCHANGED <<loc, raised>>
           ELSE IF "width" \notin ico.attrs \/ "height" \notin ico.attrs
           THEN /\ pc' = "done"
                /\ ret' = "done"
                /\ raised' = "AttributeError"
                /\ UNCHANGED loc
           ELSE /\ loc' = [positions |-> flash_positions(ico),
                           chars |-> SubSeq(obj.type_effects.impact_chars, 1,
                                            Min(loc.flashes,
                                                Len(obj.type_effects.impact_chars))),
                           c |-> 1, k |-> 1, flash_objs |-> <<>>]
                /\ pc' = "hf_frame"
                /\ UNCHANGED <<ret, raised>>
    /\ UNCHANGED <<call, obj, co, placed, ntok, fails, log, prims, out>>

\* a corner whose add fails ends the frame's placements
HitFlash_add_stop ==
    /\ pc = "hf_frame"
    /\ loc.c <= Len(loc.chars)
    /\ loc.k <= 4
    /\ LET x == loc.positions[loc.k][1]
           y == loc.positions[loc.k][2]
       IN  \E ok \in Outcomes(x, y) :
             /\ log' = Append(log, OpAdd("HitFlash", ntok + 1, x, y, ok))
             /\ fails' = Failed(x, y, ok)
             /\ placed' = IF ok THEN With(placed, ntok + 1, <<x, y>>) ELSE placed
             /\ loc' = [loc EXCEPT !.k = IF ok THEN loc.k + 1 ELSE 5,
                                   !.flash_objs = IF ok THEN Append(loc.flash_objs, ntok + 1)
                                                  ELSE loc.flash_objs]
    /\ ntok' = ntok + 1
    /\ UNCHANGED <<pc, call, ret, obj, co, prims, raised, out>>

\* play(), lines 261-267: a new text added at the next corner
HitFlash_add ==
    /\ pc = "hf_frame"
    /\ loc.c <= Len(loc.chars)
    /\ loc.k <= 4
    /\ LET x == loc.positions[loc.k][1]
           y == loc.positions[loc.k][2]
       IN  \E ok \in Outcomes(x, y) :
             /\ log' = Append(log, OpAdd("HitFlash", ntok + 1, x, y, ok))
             /\ fails' = Failed(x, y, ok)
             /\ placed' = IF ok THEN With(placed, ntok + 1, <<x, y>>) ELSE placed
             /\ loc' = [loc EXCEPT !.k = loc.k + 1,
                                   !.flash_objs = IF ok THEN Append(loc.flash_objs, ntok + 1)
                                                  ELSE loc.flash_objs]
    /\ ntok' = ntok + 1
    /\ UNCHANGED <<pc, call, ret, obj, co, prims, raised, out>>

\* the frame's texts left on the map
HitFlash_flash_noremove ==
    /\ pc = "hf_frame"
    /\ loc.c <= Len(loc.chars)
    /\ loc.k > 4
    /\ log' = log \o <<OpShow("HitFlash"), OpSleep("HitFlash", 8, 1)>>
    /\ loc' = [loc EXCEPT !.c = loc.c + 1, !.k = 1, !.flash_objs = <<>>]
    /\ UNCHANGED <<pc, call, ret, obj, co, placed, ntok, fails, prims, raised, out>>

\* play(), lines 269-277: redraw, wait, removal of the frame's texts
HitFlash_flash ==
    /\ pc = "hf_frame"
    /\ loc.c <= Len(loc.chars)
    /\ loc.k > 4
    /\ log' = log \o <<OpShow("HitFlash"), OpSleep("HitFlash", 8, 1)>>
                  \o Removes("HitFlash", loc.flash_objs)
    /\ placed' = WithoutAll(placed, loc.flash_objs)
    /\ loc' = [loc EXCEPT !.c = loc.c + 1, !.k = 1, !.flash_objs = <<>>]
    /\ UNCHANGED <<pc, call, ret, obj, co, ntok, fails, prims, raised, out>>

\* play(), line 260: the loop over the glyphs is over
HitFlash_return ==
    /\ pc = "hf_frame"
    /\ loc.c > Len(loc.chars)
    /\ Return
    /\ UNCHANGED <<call, obj, loc, co, placed, ntok, fails, log, prims, raised, out>>

HitFlashPlay ==
    \/ HitFlash_begin
    \/ HitFlash_add
    \/ HitFlash_flash
    \/ HitFlash_return

\* ------------------------------------------------------- TypeParticles
TypeParticles(start_x, start_y, end_x, end_y, type_name) ==
    [cls |-> "TypeParticles", start_x |-> start_x, start_y |-> start_y,
     end_x |-> end_x, end_y |-> end_y, type_effects |-> get_type_effects(type_name)]

\* random.randint(-1, 1)
RandInt == {-1, 0, 1}

\* int() of the quotient n / d, d > 0: rounds toward zero
IntOf(n, d) == IF n >= 0 THEN n \div d ELSE -((-n) \div d)

\* line 313
ParticleSteps(o) == Max(Max(Abs(o.end_x - o.start_x), Abs(o.end_y - o.start_y)), 1)

\* lines 320-321: int(start + d * step + jitter), d = (end - start) / steps
ParticleTarget(start, end, steps, step, jitter) ==
    IntOf(start * steps + (end - start) * step + jitter * steps, steps)

\* the jittered cells of the particles are kept in loc.particles, not in log
OpAddP(tok, ok) == [op |-> "add", prim |-> "TypeParticles", tok |-> tok, ok |-> ok]
OpMoveP(tok, ok) == [op |-> "move", prim |-> "TypeParticles", tok |-> tok, ok |-> ok]

\* play(), lines 295-311: one particle created near the start
TypeParticles_spawn ==
    /\ pc = "tp_play"
    /\ loc.n < loc.num_particles
    /\ \E offset_x \in RandInt, offset_y \in RandInt :
         LET x == obj.start_x + offset_x
             y == obj.start_y + offset_y
         IN  \E ok \in Outcomes(x, y) :
               /\ log' = Append(log, OpAddP(ntok + 1, ok))
               /\ fails' = Failed(x, y, ok)
               /\ placed' = IF ok THEN With(placed, ntok + 1, <<x, y>>) ELSE placed
               /\ loc' = [loc EXCEPT !.n = loc.n + 1,
                            !.particles = IF ok
                                          THEN Append(loc.particles,
                                                      [tok |-> ntok + 1, x |-> x, y |-> y])
                                          ELSE loc.particles]
    /\ ntok' = ntok + 1
    /\ UNCHANGED <<pc, call, ret, obj, co, prims, raised, out>>

\* play(), lines 313-317: the number of steps
TypeParticles_steps ==
    /\ pc = "tp_play"
    /\ loc.n >= loc.num_particles
    /\ loc' = [particles |-> loc.particles, steps |-> ParticleSteps(obj),
               step |-> 0, j |-> 1]
    /\ pc' = "tp_move"
    /\ UNCHANGED <<call, ret, obj, co, placed, ntok, fails, log, prims, raised, out>>

\* a particle whose move fails leaves the active set
TypeParticles_move_drop ==
    /\ pc = "tp_move"
    /\ loc.step < loc.steps
    /\ loc.j <= Len(loc.particles)
    /\ \E jx \in RandInt, jy \in RandInt :
         LET p == loc.particles[loc.j]
             new_x == ParticleTarget(obj.start_x, obj.end_x, loc.steps, loc.step, jx)
             new_y == ParticleTarget(obj.start_y, obj.end_y, loc.steps, loc.step, jy)
             cell == <<placed[p.tok][1] + (new_x - p.x), placed[p.tok][2] + (new_y - p.y)>>
         IN  \E ok \in Outcomes(cell[1], cell[2]) :
               /\ log' = Append(log, OpMoveP(p.tok, ok))
               /\ fails' = Failed(cell[1], cell[2], ok)
               /\ placed' = IF ok THEN [placed EXCEPT ![p.tok] = cell] ELSE placed
               /\ loc' = IF ok
                         THEN [loc EXCEPT !.j = loc.j + 1,
                                 !.particles[loc.j] = [tok |-> p.tok, x |-> new_x, y |-> new_y]]
                         ELSE [loc EXCEPT !.particles =
                                 SubSeq(loc.particles, 1, loc.j - 1)
                                 \o SubSeq(loc.particles, loc.j + 1, Len(loc.particles))]
    /\ UNCHANGED <<pc, call, ret, obj, co, ntok, prims, raised, out>>

\* play(), lines 318-328: one particle moved toward its jittered cell
TypeParticles_move ==
    /\ pc = "tp_move"
    /\ loc.step < loc.steps
    /\ loc.j <= Len(loc.particles)
    /\ \E jx \in RandInt, jy \in RandInt :
         LET p == loc.particles[loc.j]
             new_x == ParticleTarget(obj.start_x, obj.end_x, loc.steps, loc.step, jx)
             new_y == ParticleTarget(obj.start_y, obj.end_y, loc.steps, loc.step, jy)
             cell == <<placed[p.tok][1] + (new_x - p.x), placed[p.tok][2] + (new_y - p.y)>>
         IN  \E ok \in Outcomes(cell[1], cell[2]) :
               /\ log' = Append(log, OpMoveP(p.tok, ok))
               /\ fails' = Failed(cell[1], cell[2], ok)
               /\ placed' = IF ok THEN [placed EXCEPT ![p.tok] = cell] ELSE placed
               /\ loc' = [loc EXCEPT !.j = loc.j + 1,
                            !.particles[loc.j] = IF ok
                                                 THEN [tok |-> p.tok, x |-> new_x, y |-> new_y]
                                                 ELSE p]
    /\ UNCHANGED <<pc, call, ret, obj, co, ntok, prims, raised, out>>

\* play(), lines 330-331: redraw and wait at the end of a step
TypeParticles_show ==
    /\ pc = "tp_move"
    /\ loc.step < loc.steps
    /\ loc.j > Len(loc.particles)
    /\ log' = log \o <<OpShow("TypeParticles"), OpSleep("TypeParticles", 5, 1)>>
    /\ loc' = [loc EXCEPT !.step = loc.step + 1, !.j = 1]
    /\ UNCHANGED <<pc, call, ret, obj, co, placed, ntok, fails, prims, raised, out>>

\* play(), lines 333-337: every particle of the active set removed
TypeParticles_remove ==
    /\ pc = "tp_move"
    /\ loc.step >= loc.steps
    /\ LET toks == [j \in 1..Len(loc.particles) |-> loc.particles[j].tok]
       IN  /\ log' = log \o Removes("TypeParticles", toks)
           /\ placed' = WithoutAll(placed, toks)
    /\ Return
    /\ UNCHANGED <<call, obj, loc, co, ntok, fails, prims, raised, out>>

TypeParticlesPlay ==
    \/ TypeParticles_spawn
    \/ TypeParticles_steps
    \/ TypeParticles_move
    \/ TypeParticles_show
    \/ TypeParticles_remove

\* ------------------------------------------------------ BattleAnimator
Entity(has_ico, ico) == [has_ico |-> has_ico, ico |-> ico]

\* the guard looking at the icon's x only
IcoGuard_noico(target) == "x" \in target.ico.attrs

\* the guard also asking for y, width and height
IcoGuard_full(target) ==
    target.has_ico /\ {"x", "y", "width", "height"} \subseteq target.ico.attrs

\* hasattr(target, 'ico') and hasattr(target.ico, 'x')
IcoGuard(target) == target.has_ico /\ "x" \in target.ico.attrs

Raise(e) ==
    /\ pc' = "done"
    /\ ret' = "done"
    /\ raised' = e

\* the damage number played before the hit flash has run
play_attack_animation_noflash ==
    /\ pc = "atk_call"
    /\ IF ~IcoGuard(call.defender)
       THEN /\ pc' = "done"
            /\ UNCHANGED co
       ELSE /\ co' = [type_name |-> IF call.attack.has_type THEN call.attack.type_name
                                    ELSE "normal",
                      intensity |-> get_animation_intensity(call.damage,
                                                            call.attack.factor10)]
            /\ pc' = "atk_dmg"
    /\ UNCHANGED <<call, ret, obj, loc, prims, placed, ntok, fails, log, raised, out>>

\* the hit flash played on a miss as well
play_attack_animation_flashonmiss ==
    /\ pc = "atk_call"
    /\ IF ~IcoGuard(call.defender)
       THEN /\ pc' = "done"
            /\ UNCHANGED <<ret, obj, loc, co, prims>>
       ELSE LET type_name == IF call.attack.has_type THEN call.attack.type_name
                             ELSE "normal"
                intensity == get_animation_intensity(call.damage, call.attack.factor10)
            IN  /\ co' = [type_name |-> type_name, intensity |-> intensity]
                /\ IF call.damage > 0
                   THEN /\ obj' = HitFlash(call.defender.ico, type_name)
                        /\ loc' = [flashes |-> 2]
                        /\ prims' = Append(prims, obj')
                        /\ pc' = "hf_play"
                        /\ ret' = "atk_dmg"
                   ELSE /\ pc' = "atk_dmg"
                        /\ UNCHANGED <<ret, obj, loc, prims>>
    /\ UNCHANGED <<call, placed, ntok, fails, log, raised, out>>

\* the hit flash played for a damage of 0 as well
play_attack_animation_flashonzero ==
    /\ pc = "atk_call"
    /\ IF ~IcoGuard(call.defender)
       THEN /\ pc' = "done"
            /\ UNCHANGED <<ret, obj, loc, co, prims>>
       ELSE LET type_name == IF call.attack.has_type THEN call.attack.type_name
                             ELSE "normal"
                intensity == get_animation_intensity(call.damage, call.attack.factor10)
            IN  /\ co' = [type_name |-> type_name, intensity |-> intensity]
                /\ IF ~call.is_miss
                   THEN /\ obj' = HitFlash(call.defender.ico, type_name)
                        /\ loc' = [flashes |-> 2]
                        /\ prims' = Append(prims, obj')
                        /\ pc' = "hf_play"
                        /\ ret' = "atk_dmg"
                   ELSE /\ pc' = "atk_dmg"
                        /\ UNCHANGED <<ret, obj, loc, prims>>
    /\ UNCHANGED <<call, placed, ntok, fails, log, raised, out>>

\* play_attack_animation(), lines 421-430: the icon guard, the type name, the
\* intensity and the hit flash
play_attack_animation ==
    /\ pc = "atk_call"
    /\ IF ~IcoGuard(call.defender)
       THEN /\ pc' = "done"
            /\ UNCHANGED <<ret, obj, loc, co, prims>>
       ELSE LET type_name == IF call.attack.has_type THEN call.attack.type_name
                             ELSE "normal"
                intensity == get_animation_intensity(call.damage, call.attack.factor10)
            IN  /\ co' = [type_name |-> type_name, intensity |-> intensity]
                /\ IF ~call.is_miss /\ call.damage > 0
                   THEN /\ obj' = HitFlash(call.defender.ico, type_name)
                        /\ loc' = [flashes |-> 2]
                        /\ prims' = Append(prims, obj')
                        /\ pc' = "hf_play"
                        /\ ret' = "atk_dmg"
                   ELSE /\ pc' = "atk_dmg"
                        /\ UNCHANGED <<ret, obj, loc, prims>>
    /\ UNCHANGED <<call, placed, ntok, fails, log, raised, out>>

\* the damage number's row not clamped to row 1
attack_damage_number_unclamped ==
    /\ pc = "atk_dmg"
    /\ LET ico == call.defender.ico
       IN  IF ~({"width", "y"} \subseteq ico.attrs)
           THEN /\ Raise("AttributeError")
                /\ UNCHANGED <<obj, loc, co, ntok, prims>>
           ELSE LET dmg_x == ico.x + ico.width \div 2
                    dmg_y == ico.y - 1
                    is_critical == call.effectiveness10 > 12 /\ call.damage > 5
                IN  /\ co' = [type_name |-> co.type_name, intensity |-> co.intensity,
                              dmg_x |-> dmg_x, dmg_y |-> dmg_y]
                    /\ obj' = DamageNumber(IF call.is_miss THEN 0 ELSE call.damage,
                                           dmg_x, dmg_y, is_critical, FALSE)
                    /\ loc' = [duration100 |-> 50]
                    /\ ntok' = ntok + 1
                    /\ prims' = Append(prims, obj')
                    /\ pc' = "dn_play"
                    /\ ret' = "atk_eff"
                    /\ UNCHANGED raised
    /\ UNCHANGED <<call, placed, fails, log, out>>

\* critical from effectiveness 1.2 and damage 5 on
attack_damage_number_nonstrict ==
    /\ pc = "atk_dmg"
    /\ LET ico == call.defender.ico
       IN  IF ~({"width", "y"} \subseteq ico.attrs)
           THEN /\ Raise("AttributeError")
                /\ UNCHANGED <<obj, loc, co, ntok, prims>>
           ELSE LET dmg_x == ico.x + ico.width \div 2
                    dmg_y == ico.y - 1
                    is_critical == call.effectiveness10 >= 12 /\ call.damage >= 5
                IN  /\ co' = [type_name |-> co.type_name, intensity |-> co.intensity,
                              dmg_x |-> dmg_x, dmg_y |-> dmg_y]
                    /\ obj' = DamageNumber(IF call.is_miss THEN 0 ELSE call.damage,
                                           dmg_x, Max(1, dmg_y), is_critical, FALSE)
                    /\ loc' = [duration100 |-> 50]
                    /\ ntok' = ntok + 1
                    /\ prims' = Append(prims, obj')
                    /\ pc' = "dn_play"
                    /\ ret' = "atk_eff"
                    /\ UNCHANGED raised
    /\ UNCHANGED <<call, placed, fails, log, out>>

\* play_attack_animation(), lines 432-445: the anchor and the damage number
attack_damage_number ==
    /\ pc = "atk_dmg"
    /\ LET ico == call.defender.ico
       IN  IF ~({"width", "y"} \subseteq ico.attrs)
           THEN /\ Raise("AttributeError")
                /\ UNCHANGED <<obj, loc, co, ntok, prims>>
           ELSE LET dmg_x == ico.x + ico.width \div 2
                    dmg_y == ico.y - 1
                    is_critical == call.effectiveness10 > 12 /\ call.damage > 5
                IN  /\ co' = [type_name |-> co.type_name, intensity |-> co.intensity,
                              dmg_x |-> dmg_x, dmg_y |-> dmg_y]
                    /\ obj' = DamageNumber(IF call.is_miss THEN 0 ELSE call.damage,
                                           dmg_x, Max(1, dmg_y), is_critical, FALSE)
                    /\ loc' = [duration100 |-> 50]
                    /\ ntok' = ntok + 1
                    /\ prims' = Append(prims, obj')
                    /\ pc' = "dn_play"
                    /\ ret' = "atk_eff"
                    /\ UNCHANGED raised
    /\ UNCHANGED <<call, placed, fails, log, out>>

\* the label's row not clamped to row 1
attack_effectivity_unclamped ==
    /\ pc = "atk_eff"
    /\ IF ~call.is_miss /\ call.effectiveness10 # 10
       THEN /\ obj' = EffectivityIndicator(co.dmg_x - 2, co.dmg_y - 1,
                                           call.effectiveness10)
            /\ loc' = [duration100 |-> 40]
            /\ ntok' = ntok + 1
            /\ prims' = Append(prims, obj')
            /\ pc' = "ei_play"
            /\ ret' = "atk_shake"
       ELSE /\ pc' = "atk_shake"
            /\ UNCHANGED <<ret, obj, loc, ntok, prims>>
    /\ UNCHANGED <<call, co, placed, fails, log, raised, out>>

\* the effectiveness label played on a miss as well
attack_effectivity_onmiss ==
    /\ pc = "atk_eff"
    /\ IF call.effectiveness10 # 10
       THEN /\ obj' = EffectivityIndicator(co.dmg_x - 2, Max(1, co.dmg_y - 1),
                                           call.effectiveness10)
            /\ loc' = [duration100 |-> 40]
            /\ ntok' = ntok + 1
            /\ prims' = Append(prims, obj')
            /\ pc' = "ei_play"
            /\ ret' = "atk_shake"
       ELSE /\ pc' = "atk_shake"
            /\ UNCHANGED <<ret, obj, loc, ntok, prims>>
    /\ UNCHANGED <<call, co, placed, fails, log, raised, out>>

\* play_attack_animation(), lines 447-455: the effectiveness label
attack_effectivity ==
    /\ pc = "atk_eff"
    /\ IF ~call.is_miss /\ call.effectiveness10 # 10
       THEN /\ obj' = EffectivityIndicator(co.dmg_x - 2, Max(1, co.dmg_y - 1),
                                           call.effectiveness10)
            /\ loc' = [duration100 |-> 40]
            /\ ntok' = ntok + 1
            /\ prims' = Append(prims, obj')
            /\ pc' = "ei_play"
            /\ ret' = "atk_shake"
       ELSE /\ pc' = "atk_shake"
            /\ UNCHANGED <<ret, obj, loc, ntok, prims>>
    /\ UNCHANGED <<call, co, placed, fails, log, raised, out>>

\* the shake played for CRITICAL only
attack_shake_criticalonly ==
    /\ pc = "atk_shake"
    /\ IF co.intensity \in {"CRITICAL"}
       THEN /\ obj' = ScreenShake(co.intensity)
            /\ loc' = [i |-> 0]
            /\ prims' = Append(prims, obj')
            /\ pc' = "ss_play"
            /\ ret' = "done"
       ELSE /\ pc' = "done"
            /\ UNCHANGED <<ret, obj, loc, prims>>
    /\ UNCHANGED <<call, co, placed, ntok, fails, log, raised, out>>

\* play_attack_animation(), lines 457-460: the screen shake
attack_shake ==
    /\ pc = "atk_shake"
    /\ IF co.intensity \in {"STRONG", "CRITICAL"}
       THEN /\ obj' = ScreenShake(co.intensity)
            /\ loc' = [i |-> 0]
            /\ prims' = Append(prims, obj')
            /\ pc' = "ss_play"
            /\ ret' = "done"
       ELSE /\ pc' = "done"
            /\ UNCHANGED <<ret, obj, loc, prims>>
    /\ UNCHANGED <<call, co, placed, ntok, fails, log, raised, out>>

\* play_status_effect_animation(), lines 475-485
play_status_effect_animation ==
    /\ pc = "status_call"
    /\ IF ~IcoGuard(call.target)
       THEN /\ pc' = "done"
            /\ UNCHANGED <<ret, obj, loc, ntok, prims, raised>>
       ELSE LET ico == call.target.ico
            IN  IF ~({"width", "y"} \subseteq ico.attrs)
                THEN /\ Raise("AttributeError")
                     /\ UNCHANGED <<obj, loc, ntok, prims>>
                ELSE /\ obj' = StatusEffectIndicator(call.effect_name,
                                                     ico.x + ico.width \div 2,
                                                     ico.y - 1, call.is_applied)
                     /\ loc' = [duration100 |-> 60]
                     /\ ntok' = ntok + 1
                     /\ prims' = Append(prims, obj')
                     /\ pc' = "se_play"
                     /\ ret' = "done"
                     /\ UNCHANGED raised
    /\ UNCHANGED <<call, co, placed, fails, log, out>>

\* the heal number's row not clamped to row 1
play_heal_animation_unclamped ==
    /\ pc = "heal_call"
    /\ IF ~IcoGuard(call.target)
       THEN /\ pc' = "done"
            /\ UNCHANGED <<ret, obj, loc, co, ntok, prims, raised>>
       ELSE LET ico == call.target.ico
            IN  IF ~({"width", "y"} \subseteq ico.attrs)
                THEN /\ Raise("AttributeError")
                     /\ UNCHANGED <<obj, loc, co, ntok, prims>>
                ELSE LET dmg_x == ico.x + ico.width \div 2
                         dmg_y == ico.y - 1
                     IN  /\ co' = [dmg_x |-> dmg_x, dmg_y |-> dmg_y]
                         /\ obj' = DamageNumber(call.heal_amount, dmg_x, dmg_y,
                                                FALSE, TRUE)
                         /\ loc' = [duration100 |-> 60]
                         /\ ntok' = ntok + 1
                         /\ prims' = Append(prims, obj')
                         /\ pc' = "dn_play"
                         /\ ret' = "done"
                         /\ UNCHANGED raised
    /\ UNCHANGED <<call, placed, fails, log, out>>

\* play_heal_animation(), lines 494-507
play_heal_animation ==
    /\ pc = "heal_call"
    /\ IF ~IcoGuard(call.target)
       THEN /\ pc' = "done"
            /\ UNCHANGED <<ret, obj, loc, co, ntok, prims, raised>>
       ELSE LET ico == call.target.ico
            IN  IF ~({"width", "y"} \subseteq ico.attrs)
                THEN /\ Raise("AttributeError")
                     /\ UNCHANGED <<obj, loc, co, ntok, prims>>
                ELSE LET dmg_x == ico.x + ico.width \div 2
                         dmg_y == ico.y - 1
                     IN  /\ co' = [dmg_x |-> dmg_x, dmg_y |-> dmg_y]
                         /\ obj' = DamageNumber(call.heal_amount, dmg_x, Max(1, dmg_y),
                                                FALSE, TRUE)
                         /\ loc' = [duration100 |-> 60]
                         /\ ntok' = ntok + 1
                         /\ prims' = Append(prims, obj')
                         /\ pc' = "dn_play"
                         /\ ret' = "done"
                         /\ UNCHANGED raised
    /\ UNCHANGED <<call, placed, fails, log, out>>

BattleAnimatorStep ==
    \/ play_attack_animation
    \/ attack_damage_number
    \/ attack_effectivity
    \/ attack_shake
    \/ play_status_effect_animation
    \/ play_heal_animation

\* ------------------------------------------------------ the game's calls
AllAttrs == {"x", "y", "width", "height"}

\* well-formed icons, some of them touching the edges of the map
GoodIcos == {Ico(AllAttrs, x, y, w, 2) : x \in {0, 1}, y \in 0..(MapHeight - 1), w \in {3, 4}}

\* icons lacking one of the four attributes
BadIcos == {Ico(AllAttrs \ {a}, 1, 2, 3, 2) : a \in AllAttrs}

MidIco == Ico(AllAttrs, 1, 2, 3, 2)

Entities == {Entity(TRUE, i) : i \in GoodIcos \cup BadIcos} \cup {Entity(FALSE, MidIco)}

Attack(has_type, type_name, factor10) ==
    [has_type |-> has_type, type_name |-> type_name, factor10 |-> factor10]

Attacks == {Attack(TRUE, "fire", 10), Attack(FALSE, "normal", 15),
            Attack(TRUE, "unknown_type", 20)}

DamageVals == {0, 2, 5, 6, 12}
Effectiveness10 == {5, 10, 12, 13}

AttackCall(defender, attack, damage, effectiveness10, is_miss) ==
    [op |-> "play_attack_animation", defender |-> defender, attack |-> attack,
     damage |-> damage, effectiveness10 |-> effectiveness10, is_miss |-> is_miss]

\* every icon with one hit; every value on one icon; misses
AttackCalls ==
    {AttackCall(e, Attack(TRUE, "normal", 10), 6, 13, FALSE) : e \in Entities}
    \cup
    {AttackCall(e, Attack(TRUE, "normal", 10), 6, 13, TRUE) :
        e \in Entities \ {Entity(TRUE, i) : i \in GoodIcos}}
    \cup
    {AttackCall(Entity(TRUE, MidIco), a, d, f, FALSE) :
        a \in Attacks, d \in DamageVals, f \in Effectiveness10}
    \cup
    {AttackCall(Entity(TRUE, MidIco), Attack(TRUE, "fire", 10), d, f, TRUE) :
        d \in {0, 6, 12}, f \in {10, 13}}

EffectNames == {"burning", "sleep", "unknown_effect"}

StatusCalls ==
    {[op |-> "play_status_effect_animation", target |-> e, effect_name |-> n,
      is_applied |-> a] : e \in Entities, n \in EffectNames, a \in BOOLEAN}

HealCalls ==
    {[op |-> "play_heal_animation", target |-> e, heal_amount |-> h] :
        e \in Entities, h \in {0, 5}}

\* the game calls play_attack_animation
CallAttack ==
    /\ pc = "idle"
    /\ \E c \in AttackCalls : call' = c
    /\ pc' = "atk_call"
    /\ UNCHANGED <<ret, obj, loc, co, placed, ntok, fails, log, prims, raised, out>>

\* the game calls play_status_effect_animation
CallStatus ==
    /\ pc = "idle"
    /\ \E c \in StatusCalls : call' = c
    /\ pc' = "status_call"
    /\ UNCHANGED <<ret, obj, loc, co, placed, ntok, fails, log, prims, raised, out>>

\* the game calls play_heal_animation
CallHeal ==
    /\ pc = "idle"
    /\ \E c \in HealCalls : call' = c
    /\ pc' = "heal_call"
    /\ UNCHANGED <<ret, obj, loc, co, placed, ntok, fails, log, prims, raised, out>>

\* arguments of the DamageNumber plays tried: <<damage, x, y, is_critical,
\* is_heal, duration100>>; the amount 0 on fewer cells than the amount 7
DamageNumberPlays ==
    ({7} \X {0, MapWidth - 1, MapWidth} \X (0..MapHeight)
         \X BOOLEAN \X BOOLEAN \X {50, 80})
    \cup
    ({0} \X {0, MapWidth - 1, MapWidth} \X {1, MapHeight}
         \X BOOLEAN \X BOOLEAN \X {50})

\* DamageNumber(damage, x, y, map, is_critical, is_heal).play(duration)
PlayDamageNumber ==
    /\ pc = "idle"
    /\ \E a \in DamageNumberPlays :
         /\ call' = [op |-> "DamageNumber.play"]
         /\ obj' = DamageNumber(a[1], a[2], a[3], a[4], a[5])
         /\ loc' = [duration100 |-> a[6]]
    /\ ntok' = ntok + 1
    /\ prims' = Append(prims, obj')
    /\ pc' = "dn_play"
    /\ UNCHANGED <<ret, co, placed, fails, log, raised, out>>

\* StatusEffectIndicator(effect_name, x, y, map, is_applied).play(duration)
PlayStatusEffectIndicator ==
    /\ pc = "idle"
    /\ \E n \in EffectNames, x \in {1, MapWidth}, y \in -1..MapHeight,
          is_applied \in BOOLEAN :
         /\ call' = [op |-> "StatusEffectIndicator.play"]
         /\ obj' = StatusEffectIndicator(n, x, y, is_applied)
         /\ loc' = [duration100 |-> 60]
    /\ ntok' = ntok + 1
    /\ prims' = Append(prims, obj')
    /\ pc' = "se_play"
    /\ UNCHANGED <<ret, co, placed, fails, log, raised, out>>

\* ScreenShake(map, intensity).play()
PlayScreenShake ==
    /\ pc = "idle"
    /\ \E t \in DOMAIN AnimationIntensity :
         /\ call' = [op |-> "ScreenShake.play"]
         /\ obj' = ScreenShake(t)
         /\ loc' = [i |-> 0]
    /\ prims' = Append(prims, obj')
    /\ pc' = "ss_play"
    /\ UNCHANGED <<ret, co, placed, ntok, fails, log, raised, out>>

\* HitFlash(target_ico, map, type_name).play(flashes)
PlayHitFlash ==
    /\ pc = "idle"
    /\ \E ico \in GoodIcos \cup BadIcos, t \in {"normal", "fire", "unknown_type"},
          flashes \in 0..MaxFlashes :
         /\ call' = [op |-> "HitFlash.play", flashes |-> flashes]
         /\ obj' = HitFlash(ico, t)
         /\ loc' = [flashes |-> flashes]
    /\ prims' = Append(prims, obj')
    /\ pc' = "hf_play"
    /\ UNCHANGED <<ret, co, placed, ntok, fails, log, raised, out>>

\* start and end cells of the particle runs tried, the starts in corners of
\* the map
ParticleRuns ==
    {<<0, 0, 2, 1>>, <<0, 0, 0, 0>>,
     <<MapWidth - 1, MapHeight - 1, MapWidth - 1, MapHeight - 3>>}

\* TypeParticles(start_x, start_y, end_x, end_y, map, type_name).play(num_particles)
PlayTypeParticles ==
    /\ pc = "idle"
    /\ \E r \in ParticleRuns, n \in 0..MaxParticles :
         /\ call' = [op |-> "TypeParticles.play", num_particles |-> n]
         /\ obj' = TypeParticles(r[1], r[2], r[3], r[4], "fire")
         /\ loc' = [num_particles |-> n, n |-> 0, particles |-> <<>>]
    /\ prims' = Append(prims, obj')
    /\ pc' = "tp_play"
    /\ UNCHANGED <<ret, co, placed, ntok, fails, log, raised, out>>

\* EffectivityIndicator(x, y, map, effectiveness).play(duration)
PlayEffectivityIndicator ==
    /\ pc = "idle"
    /\ \E x \in {0, MapWidth}, y \in {1, MapHeight}, f \in Effectiveness10,
          duration100 \in {40, 50} :
         /\ call' = [op |-> "EffectivityIndicator.play"]
         /\ obj' = EffectivityIndicator(x, y, f)
         /\ loc' = [duration100 |-> duration100]
    /\ ntok' = ntok + 1
    /\ prims' = Append(prims, obj')
    /\ pc' = "ei_play"
    /\ UNCHANGED <<ret, co, placed, fails, log, raised, out>>

\* the operation the game has called
CalledOp == IF "op" \in DOMAIN call THEN call.op ELSE "none"

\* DamageNumber(damage, x, y, map, is_critical, is_heal), not played
NewDamageNumber ==
    /\ pc = "idle"
    /\ \E a \in DamageNumberPlays :
         /\ call' = [op |-> "DamageNumber"]
         /\ obj' = DamageNumber(a[1], a[2], a[3], a[4], a[5])
    /\ ntok' = ntok + 1
    /\ pc' = "done"
    /\ UNCHANGED <<ret, loc, co, placed, fails, log, prims, raised, out>>

\* _cleanup() called on a DamageNumber that was built, or whose play() has
\* returned, or that was cleaned up already
Call_cleanup ==
    /\ pc = "done"
    /\ CalledOp \in {"DamageNumber", "DamageNumber.play", "DamageNumber._cleanup"}
    /\ LET n == IF CalledOp = "DamageNumber._cleanup" THEN call.n + 1 ELSE 1
       IN  /\ n <= MaxCleanups
           /\ call' = [op |-> "DamageNumber._cleanup", n |-> n]
    /\ DamageNumber__cleanup
    /\ UNCHANGED <<pc, ret, loc, co, ntok, fails, prims, raised, out>>

\* the first call is one of those the game repeats: every hit, heal and
\* status effect, one hit of damage 0, no miss
Repeated(c) ==
    /\ c.op \in {"play_attack_animation", "play_status_effect_animation",
                 "play_heal_animation"}
    /\ c.op = "play_attack_animation" =>
         /\ ~c.is_miss
         /\ c.damage = 0 => (c.attack = Attack(TRUE, "fire", 10) /\ c.effectiveness10 = 10)

\* the game calls the same BattleAnimator operation again with the same
\* arguments, after a first call that met no failure inside the map, on a map
\* of the same size that refuses the cells outside of it and no other; the
\* operations of the first call are kept in call.first, and the texts of the
\* second call are numbered like those of the first
CallAgain ==
    /\ pc = "done"
    /\ "op" \in DOMAIN call
    /\ Repeated(call)
    /\ "first" \notin DOMAIN call
    /\ raised = "none"
    /\ fails = 0
    /\ call' = [k \in DOMAIN call \cup {"first"} |->
                  IF k = "first" THEN log ELSE call[k]]
    /\ pc' = CASE call.op = "play_attack_animation" -> "atk_call"
               [] call.op = "play_status_effect_animation" -> "status_call"
               [] call.op = "play_heal_animation" -> "heal_call"
    /\ obj' = None
    /\ loc' = None
    /\ co' = None
    /\ ntok' = 0
    /\ log' = <<>>
    /\ prims' = <<>>
    /\ fails' = MaxFails
    /\ UNCHANGED <<ret, placed, raised, out>>

Init ==
    /\ pc = "idle"
    /\ call = None
    /\ ret = "done"
    /\ obj = None
    /\ loc = None
    /\ co = None
    /\ placed = <<>>
    /\ ntok = 0
    /\ fails = 0
    /\ log = <<>>
    /\ prims = <<>>
    /\ raised = "none"
    /\ out = "unset"

Next ==
    \/ CallAttack
    \/ CallStatus
    \/ CallHeal
    \/ PlayDamageNumber
    \/ PlayStatusEffectIndicator
    \/ PlayScreenShake
    \/ PlayHitFlash
    \/ PlayTypeParticles
    \/ PlayEffectivityIndicator
    \/ NewDamageNumber
    \/ Call_cleanup
    \/ CallAgain
    \/ BattleAnimatorStep
    \/ DamageNumberPlay
    \/ StatusEffectIndicatorPlay
    \/ ScreenShake_step
    \/ HitFlashPlay
    \/ TypeParticlesPlay
    \/ EffectivityIndicatorPlay

Spec == Init /\ [][Next]_vars

\* --------------------------------------------------- the pure functions
Factors10 == {0, 5, 10, 15, 20}

TypeNames == DOMAIN TYPE_EFFECT_CONFIG \cup {"unknown_type", "", "Fire", "burning"}

InitPure ==
    /\ pc = "pure"
    /\ call \in {[op |-> "get_animation_intensity", damage |-> d, factor10 |-> f,
                  damage2 |-> d2, factor10_2 |-> f2] :
                    d \in 0..MaxDamage, f \in Factors10,
                    d2 \in 0..MaxDamage, f2 \in Factors10}
                \cup {[op |-> "get_type_effects", type_name |-> t] : t \in TypeNames}
                \cup {[op |-> "effect_symbol", effect_name |-> e] :
                        e \in DOMAIN EFFECT_SYMBOLS \cup {"unknown_effect"}}
    /\ ret = "done"
    /\ obj = None
    /\ loc = None
    /\ co = None
    /\ placed = <<>>
    /\ ntok = 0
    /\ fails = 0
    /\ log = <<>>
    /\ prims = <<>>
    /\ raised = "none"
    /\ out = "unset"

\* get_animation_intensity applied to two pairs of arguments
Apply_get_animation_intensity ==
    /\ pc = "pure"
    /\ call.op = "get_animation_intensity"
    /\ out' = <<get_animation_intensity(call.damage, call.factor10),
                get_animation_intensity(call.damage2, call.factor10_2)>>
    /\ pc' = "done"
    /\ UNCHANGED <<call, ret, obj, loc, co, placed, ntok, fails, log, prims, raised>>

\* get_type_effects applied to a key
Apply_get_type_effects ==
    /\ pc = "pure"
    /\ call.op = "get_type_effects"
    /\ out' = get_type_effects(call.type_name)
    /\ pc' = "done"
    /\ UNCHANGED <<call, ret, obj, loc, co, placed, ntok, fails, log, prims, raised>>

\* the symbol of an effect looked up
Apply_effect_symbol ==
    /\ pc = "pure"
    /\ call.op = "effect_symbol"
    /\ out' = <<effect_symbol(call.effect_name)>>
    /\ pc' = "done"
    /\ UNCHANGED <<call, ret, obj, loc, co, placed, ntok, fails, log, prims, raised>>

NextPure ==
    \/ Apply_get_animation_intensity
    \/ Apply_get_type_effects
    \/ Apply_effect_symbol

SpecPure == InitPure /\ [][NextPure]_vars

\* ============================================ battle_animation.py (older)
\* ------------------------------------------------- DamageNumberDisplay
\* show(): the critical marker chosen before the heal sign
DamageNumberDisplay_text_critfirst(damage, is_critical, is_heal, is_miss) ==
    IF is_miss THEN "MISS"
    ELSE IF is_critical THEN ToString(damage) \o "!"
    ELSE IF is_heal THEN "+" \o ToString(damage)
    ELSE ToString(damage)

\* show(), lines 40-53: the text of the label
DamageNumberDisplay_text(damage, is_critical, is_heal, is_miss) ==
    IF is_miss THEN "MISS"
    ELSE IF is_heal THEN "+" \o ToString(damage)
    ELSE IF is_critical THEN ToString(damage) \o "!"
    ELSE ToString(damage)

\* show(), lines 40-53: the colour of the label
DamageNumberDisplay_color(damage, is_critical, is_heal, is_miss) ==
    IF is_miss THEN "lightgrey"
    ELSE IF is_heal THEN "green"
    ELSE IF is_critical THEN "yellow+thicc"
    ELSE IF damage > 0 THEN "red+thicc"
    ELSE "white"

\* show(), lines 40-59: the label is built and placed; a failed placement
\* returns
DamageNumberDisplay_show ==
    /\ pc = "show_call"
    /\ obj' = [cls |-> "Text",
               text |-> DamageNumberDisplay_text(call.damage, call.is_critical,
                                                 call.is_heal, call.is_miss),
               color |-> DamageNumberDisplay_color(call.damage, call.is_critical,
                                                   call.is_heal, call.is_miss),
               tok |-> ntok + 1]
    /\ ntok' = ntok + 1
    /\ \E ok \in Outcomes(call.x, call.y) :
         /\ log' = Append(log, OpAdd("DamageNumberDisplay", ntok + 1, call.x, call.y, ok))
         /\ fails' = Failed(call.x, call.y, ok)
         /\ IF ok
            THEN /\ placed' = With(placed, ntok + 1, <<call.x, call.y>>)
                 /\ loc' = [offset |-> 0]
                 /\ pc' = "show_loop"
            ELSE /\ pc' = "done"
                 /\ UNCHANGED <<placed, loc>>
    /\ UNCHANGED <<call, ret, co, prims, raised, out>>

\* show(), lines 61-72: one turn of the loop over range(3)
DamageNumberDisplay_show_step ==
    /\ pc = "show_loop"
    /\ IF loc.offset < 3
       THEN LET new_y == call.y - loc.offset - 1
                removed == OpRemove("DamageNumberDisplay", obj.tok)
            IN  IF new_y >= 0
                THEN \E ok \in Outcomes(call.x, new_y) :
                       /\ fails' = Failed(call.x, new_y, ok)
                       /\ IF ok
                          THEN /\ log' = log \o
                                    <<removed,
                                      OpAdd("DamageNumberDisplay", obj.tok, call.x, new_y, TRUE),
                                      OpShow("DamageNumberDisplay"),
                                      OpSleep("DamageNumberDisplay", 12, 1)>>
                               /\ placed' = With(placed, obj.tok, <<call.x, new_y>>)
                               /\ loc' = [loc EXCEPT !.offset = loc.offset + 1]
                               /\ pc' = "show_loop"
                          ELSE /\ log' = log \o
                                    <<removed,
                                      OpAdd("DamageNumberDisplay", obj.tok, call.x, new_y, FALSE)>>
                               /\ placed' = Without(placed, obj.tok)
                               /\ pc' = "show_end"
                               /\ UNCHANGED loc
                ELSE /\ log' = Append(log, removed)
                     /\ placed' = Without(placed, obj.tok)
                     /\ pc' = "show_end"
                     /\ UNCHANGED <<loc, fails>>
       ELSE /\ pc' = "show_end"
            /\ UNCHANGED <<log, placed, loc, fails>>
    /\ UNCHANGED <<call, ret, obj, co, ntok, prims, raised, out>>

\* the label removed without a last redraw
DamageNumberDisplay_show_end_noredraw ==
    /\ pc = "show_end"
    /\ log' = Append(log, OpRemove("DamageNumberDisplay", obj.tok))
    /\ placed' = Without(placed, obj.tok)
    /\ pc' = "done"
    /\ UNCHANGED <<call, ret, obj, loc, co, ntok, fails, prims, raised, out>>

\* show(), lines 74-75: the label removed and the map redrawn
DamageNumberDisplay_show_end ==
    /\ pc = "show_end"
    /\ log' = log \o <<OpRemove("DamageNumberDisplay", obj.tok),
                       OpShow("DamageNumberDisplay")>>
    /\ placed' = Without(placed, obj.tok)
    /\ pc' = "done"
    /\ UNCHANGED <<call, ret, obj, loc, co, ntok, fails, prims, raised, out>>

DamageNumberDisplayShow ==
    \/ DamageNumberDisplay_show
    \/ DamageNumberDisplay_show_step
    \/ DamageNumberDisplay_show_end

\* ----------------------------------------------- StatusEffectAnimation
EFFECT_VISUALS ==
    [e \in {"paralyzation", "sleep", "burning", "poison", "confusion", "freezing"} |->
       CASE e = "paralyzation" -> [char |-> 9889, color |-> "yellow+thicc", pattern |-> "spark"]
         [] e = "sleep"        -> [char |-> 122, color |-> "white", pattern |-> "float"]
         [] e = "burning"      -> [char |-> 42, color |-> "red+thicc", pattern |-> "flicker"]
         [] e = "poison"       -> [char |-> 126, color |-> "purple", pattern |-> "wave"]
         [] e = "confusion"    -> [char |-> 63, color |-> "lightblue", pattern |-> "spin"]
         [] e = "freezing"     -> [char |-> 35, color |-> "cyan", pattern |-> "crystallize"]]

\* the frame of a pattern animation: its arguments, the turn of its loop and
\* the tokens it keeps placed
PatternFrame(pattern, x, y, char, color) ==
    [pattern |-> pattern, x |-> x, y |-> y, char |-> char, color |-> color,
     i |-> 0, toks |-> <<>>]

\* play_effect_applied() with an unknown name drawn as a spark of "*"
play_effect_applied_nocheck ==
    /\ pc = "effect_call"
    /\ LET known == call.effect_name \in DOMAIN EFFECT_VISUALS
           visual == IF known THEN EFFECT_VISUALS[call.effect_name]
                     ELSE [char |-> 42, color |-> "white", pattern |-> "spark"]
           x == call.target_ico.x + call.target_ico.width \div 2
           y == call.target_ico.y + call.target_ico.height \div 2
       IN  /\ loc' = PatternFrame(visual.pattern, x, y, visual.char, visual.color)
           /\ prims' = Append(prims, [cls |-> visual.pattern])
           /\ pc' = visual.pattern
    /\ UNCHANGED <<call, ret, obj, co, placed, ntok, fails, log, raised, out>>

\* play_effect_applied(), lines 93-117: an unknown name returns, a known one
\* is handed to the animation of its pattern
play_effect_applied ==
    /\ pc = "effect_call"
    /\ IF call.effect_name \notin DOMAIN EFFECT_VISUALS
       THEN /\ pc' = "done"
            /\ UNCHANGED <<loc, prims>>
       ELSE LET visual == EFFECT_VISUALS[call.effect_name]
                x == call.target_ico.x + call.target_ico.width \div 2
                y == call.target_ico.y + call.target_ico.height \div 2
            IN  /\ loc' = PatternFrame(visual.pattern, x, y, visual.char, visual.color)
                /\ prims' = Append(prims, [cls |-> visual.pattern])
                /\ pc' = visual.pattern
    /\ UNCHANGED <<call, ret, obj, co, placed, ntok, fails, log, raised, out>>

\* a new token tried at (tx, ty); placed, it is redrawn, slept on for
\* sleep100 hundredths and removed again; a failed placement is passed over
PlaceAndRemove(p, tok, tx, ty, sleep100) ==
    \E ok \in Outcomes(tx, ty) :
      /\ fails' = Failed(tx, ty, ok)
      /\ log' = log \o <<OpAdd(p, tok, tx, ty, ok)>> \o
                 (IF ok THEN <<OpShow(p), OpSleep(p, sleep100, 1), OpRemove(p, tok)>>
                  ELSE <<>>)
      /\ loc' = [loc EXCEPT !.i = loc.i + 1]

\* a new token tried at (tx, ty) and kept placed; shown says whether a
\* successful placement is redrawn at once and slept on for sleep100
PlaceAndKeep(p, tok, tx, ty, shown, sleep100) ==
    \E ok \in Outcomes(tx, ty) :
      /\ fails' = Failed(tx, ty, ok)
      /\ log' = log \o <<OpAdd(p, tok, tx, ty, ok)>> \o
                 (IF ok /\ shown THEN <<OpShow(p), OpSleep(p, sleep100, 1)>> ELSE <<>>)
      /\ placed' = IF ok THEN With(placed, tok, <<tx, ty>>) ELSE placed
      /\ loc' = [loc EXCEPT !.i = loc.i + 1,
                            !.toks = IF ok THEN Append(loc.toks, tok) ELSE loc.toks]

\* the removals of the tokens kept, in the order of their placement
Removals(p, toks) == [k \in 1..Len(toks) |-> OpRemove(p, toks[k])]

\* _spark_animation(), lines 121-124
SparkPositions ==
    <<<<0, -1>>, <<1, 0>>, <<0, 1>>, <<-1, 0>>, <<1, -1>>, <<1, 1>>, <<-1, 1>>, <<-1, -1>>>>

\* _spark_animation(), lines 126-132: one spark placed
StatusEffectAnimation__spark_animation ==
    /\ pc = "spark"
    /\ loc.i < Len(SparkPositions)
    /\ LET d == SparkPositions[loc.i + 1]
       IN  PlaceAndKeep("spark", ntok + 1, loc.x + d[1], loc.y + d[2], FALSE, 0)
    /\ ntok' = ntok + 1
    /\ pc' = "spark"
    /\ UNCHANGED <<call, ret, obj, co, prims, raised, out>>

\* _spark_animation(), lines 134-139: the sparks shown and removed
StatusEffectAnimation__spark_animation_end ==
    /\ pc = "spark"
    /\ loc.i = Len(SparkPositions)
    /\ log' = log \o <<OpShow("spark"), OpSleep("spark", 15, 1)>>
                  \o Removals("spark", loc.toks) \o <<OpShow("spark")>>
    /\ placed' = WithoutAll(placed, loc.toks)
    /\ pc' = "done"
    /\ UNCHANGED <<call, ret, obj, loc, co, ntok, fails, prims, raised, out>>

\* _float_animation(), lines 141-151: one turn of the loop, the text one
\* character longer and one cell further up and right each turn
StatusEffectAnimation__float_animation ==
    /\ pc = "float"
    /\ IF loc.i < 3
       THEN /\ PlaceAndRemove("float", ntok + 1, loc.x + loc.i, loc.y - loc.i, 20)
            /\ ntok' = ntok + 1
            /\ pc' = "float"
       ELSE /\ pc' = "done"
            /\ UNCHANGED <<log, loc, fails, ntok>>
    /\ UNCHANGED <<call, ret, obj, co, placed, prims, raised, out>>

\* the values of random.randint(lo, hi) tried: its two ends
randint(lo, hi) == {lo, hi}

\* the token of an animation that builds one text before its loop
LoopToken == IF loc.i = 0 THEN ntok + 1 ELSE ntok

\* _flicker_animation(), lines 153-165: one turn of the loop, the flame at a
\* random offset
StatusEffectAnimation__flicker_animation ==
    /\ pc = "flicker"
    /\ IF loc.i < 4
       THEN /\ \E offset_x \in randint(-1, 1), offset_y \in randint(-1, 0) :
                 PlaceAndRemove("flicker", LoopToken, loc.x + offset_x, loc.y + offset_y, 8)
            /\ ntok' = LoopToken
            /\ pc' = "flicker"
       ELSE /\ pc' = "done"
            /\ UNCHANGED <<log, loc, fails, ntok>>
    /\ UNCHANGED <<call, ret, obj, co, placed, prims, raised, out>>

\* _wave_animation(), lines 167-177: one turn of the loop, a new text of
\* three characters one row lower each turn
StatusEffectAnimation__wave_animation ==
    /\ pc = "wave"
    /\ IF loc.i < 3
       THEN /\ PlaceAndRemove("wave", ntok + 1, loc.x - 1, loc.y + loc.i - 1, 10)
            /\ ntok' = ntok + 1
            /\ pc' = "wave"
       ELSE /\ pc' = "done"
            /\ UNCHANGED <<log, loc, fails, ntok>>
    /\ UNCHANGED <<call, ret, obj, co, placed, prims, raised, out>>

\* _spin_animation(), line 181
SpinPositions == <<<<0, -1>>, <<1, 0>>, <<0, 1>>, <<-1, 0>>>>

\* _spin_animation(), lines 179-190: one turn of the loop over the four
\* positions taken twice
StatusEffectAnimation__spin_animation ==
    /\ pc = "spin"
    /\ IF loc.i < 2 * Len(SpinPositions)
       THEN /\ LET d == SpinPositions[(loc.i % Len(SpinPositions)) + 1]
               IN  PlaceAndRemove("spin", LoopToken, loc.x + d[1], loc.y + d[2], 8)
            /\ ntok' = LoopToken
            /\ pc' = "spin"
       ELSE /\ pc' = "done"
            /\ UNCHANGED <<log, loc, fails, ntok>>
    /\ UNCHANGED <<call, ret, obj, co, placed, prims, raised, out>>

\* _crystallize_animation(), lines 194-205: one crystal placed at a random
\* offset
StatusEffectAnimation__crystallize_animation ==
    /\ pc = "crystallize"
    /\ loc.i < 5
    /\ \E dx \in randint(-2, 2), dy \in randint(-1, 1) :
         PlaceAndKeep("crystallize", ntok + 1, loc.x + dx, loc.y + dy, TRUE, 5)
    /\ ntok' = ntok + 1
    /\ pc' = "crystallize"
    /\ UNCHANGED <<call, ret, obj, co, prims, raised, out>>

\* _crystallize_animation(), lines 207-210: the crystals removed
StatusEffectAnimation__crystallize_animation_end ==
    /\ pc = "crystallize"
    /\ loc.i = 5
    /\ log' = log \o <<OpSleep("crystallize", 15, 1)>>
                  \o Removals("crystallize", loc.toks) \o <<OpShow("crystallize")>>
    /\ placed' = WithoutAll(placed, loc.toks)
    /\ pc' = "done"
    /\ UNCHANGED <<call, ret, obj, loc, co, ntok, fails, prims, raised, out>>

StatusEffectAnimationPlay ==
    \/ play_effect_applied
    \/ StatusEffectAnimation__spark_animation
    \/ StatusEffectAnimation__spark_animation_end
    \/ StatusEffectAnimation__float_animation
    \/ StatusEffectAnimation__flicker_animation
    \/ StatusEffectAnimation__wave_animation
    \/ StatusEffectAnimation__spin_animation
    \/ StatusEffectAnimation__crystallize_animation
    \/ StatusEffectAnimation__crystallize_animation_end

\* ------------------------------------------------ AttackAnimationSystem
\* int() of the quotient n / d, d > 0: rounded towards 0
TruncDiv(n, d) == IF n >= 0 THEN n \div d ELSE -((-n) \div d)

\* int(start + delta * (i / steps))
PointAt(start, delta, i, steps) == TruncDiv(start * steps + delta * i, steps)

\* _projectile_animation(), lines 279-291: the start and the end of the
\* flight, the number of steps, the projectile text and the empty trail
AttackAnimationSystem__projectile_animation ==
    /\ pc = "proj_call"
    /\ LET a == call.attacker_ico
           d == call.defender_ico
           is_player == a.x < d.x
           start_x == a.x + (IF is_player THEN a.width ELSE 0)
           start_y == a.y + a.height \div 2
           end_x == d.x + (IF is_player THEN 0 ELSE d.width)
           end_y == d.y + d.height \div 2
       IN  loc' = [start_x |-> start_x, start_y |-> start_y,
                   dx |-> end_x - start_x, dy |-> end_y - start_y,
                   steps |-> Max(Abs(end_x - start_x), 1),
                   projectile |-> ntok + 1, trail_chars |-> <<>>, i |-> 0]
    /\ ntok' = ntok + 1
    /\ prims' = Append(prims, [cls |-> "projectile"])
    /\ pc' = "proj_loop"
    /\ UNCHANGED <<call, ret, obj, co, placed, fails, log, raised, out>>

\* the trail text of a step, line 302: tried when i > 0 and fewer than 3
\* trail texts are kept
TrailTried == loc.i > 0 /\ Len(loc.trail_chars) < 3

\* _projectile_animation(), lines 293-314 and 322-323: the projectile placed on the cell of
\* step i, the trail text placed behind it, the map redrawn; a failed add of
\* the projectile leaves the loop
AttackAnimationSystem__projectile_animation_place ==
    /\ pc = "proj_loop"
    /\ IF loc.i < loc.steps
       THEN LET x == PointAt(loc.start_x, loc.dx, loc.i, loc.steps)
                y == PointAt(loc.start_y, loc.dy, loc.i, loc.steps)
                prev_x == PointAt(loc.start_x, loc.dx, loc.i - 1, loc.steps)
                prev_y == PointAt(loc.start_y, loc.dy, loc.i - 1, loc.steps)
                shown == <<OpShow("projectile"), OpSleep("projectile", 3, 1)>>
            IN  \E ok \in Outcomes(x, y) :
                  IF ~ok
                  THEN /\ log' = Append(log, OpAdd("projectile", loc.projectile, x, y, FALSE))
                       /\ fails' = Failed(x, y, FALSE)
                       /\ pc' = "proj_end"
                       /\ UNCHANGED <<placed, loc, ntok>>
                  ELSE IF TrailTried
                  THEN \E trail_ok \in Outcomes(prev_x, prev_y) :
                         /\ log' = log \o <<OpAdd("projectile", loc.projectile, x, y, TRUE),
                                            OpAdd("projectile", ntok + 1, prev_x, prev_y, trail_ok)>>
                                       \o shown
                         /\ fails' = Failed(prev_x, prev_y, trail_ok)
                         /\ placed' = IF trail_ok
                                      THEN With(With(placed, loc.projectile, <<x, y>>),
                                                ntok + 1, <<prev_x, prev_y>>)
                                      ELSE With(placed, loc.projectile, <<x, y>>)
                         /\ loc' = [loc EXCEPT !.trail_chars =
                                      IF trail_ok THEN Append(@, ntok + 1) ELSE @]
                         /\ ntok' = ntok + 1
                         /\ pc' = "proj_shown"
                  ELSE /\ log' = log \o <<OpAdd("projectile", loc.projectile, x, y, TRUE)>>
                                     \o shown
                       /\ placed' = With(placed, loc.projectile, <<x, y>>)
                       /\ pc' = "proj_shown"
                       /\ UNCHANGED <<fails, loc, ntok>>
       ELSE /\ pc' = "proj_end"
            /\ UNCHANGED <<log, fails, placed, loc, ntok>>
    /\ UNCHANGED <<call, ret, obj, co, prims, raised, out>>

\* the oldest trail text never removed in the loop
AttackAnimationSystem__projectile_animation_clear_keeptrail ==
    /\ pc = "proj_shown"
    /\ log' = Append(log, OpRemove("projectile", loc.projectile))
    /\ placed' = Without(placed, loc.projectile)
    /\ loc' = [loc EXCEPT !.i = @ + 1]
    /\ pc' = "proj_loop"
    /\ UNCHANGED <<call, ret, obj, co, ntok, fails, prims, raised, out>>

\* _projectile_animation(), lines 315-320: the projectile removed and, more
\* than 2 trail texts being kept, the oldest of them removed
AttackAnimationSystem__projectile_animation_clear ==
    /\ pc = "proj_shown"
    /\ IF Len(loc.trail_chars) > 2
       THEN /\ log' = log \o <<OpRemove("projectile", loc.projectile),
                               OpRemove("projectile", Head(loc.trail_chars))>>
            /\ placed' = Without(Without(placed, loc.projectile), Head(loc.trail_chars))
            /\ loc' = [loc EXCEPT !.trail_chars = Tail(@), !.i = @ + 1]
       ELSE /\ log' = Append(log, OpRemove("projectile", loc.projectile))
            /\ placed' = Without(placed, loc.projectile)
            /\ loc' = [loc EXCEPT !.i = @ + 1]
    /\ pc' = "proj_loop"
    /\ UNCHANGED <<call, ret, obj, co, ntok, fails, prims, raised, out>>

\* _projectile_animation(), lines 325-327: the trail removed and the map
\* redrawn
AttackAnimationSystem__projectile_animation_end ==
    /\ pc = "proj_end"
    /\ log' = log \o Removals("projectile", loc.trail_chars) \o <<OpShow("projectile")>>
    /\ placed' = WithoutAll(placed, loc.trail_chars)
    /\ loc' = [loc EXCEPT !.trail_chars = <<>>]
    /\ pc' = "done"
    /\ UNCHANGED <<call, ret, obj, co, ntok, fails, prims, raised, out>>

ProjectileAnimation ==
    \/ AttackAnimationSystem__projectile_animation
    \/ AttackAnimationSystem__projectile_animation_place
    \/ AttackAnimationSystem__projectile_animation_clear
    \/ AttackAnimationSystem__projectile_animation_end

\* ------------------------------------------- calls of the older module
\* the amounts shown, those of the tests among them
ShowDamages == {0, 15, 25, 50}

ShowCalls ==
    {[op |-> "DamageNumberDisplay.show", x |-> x, y |-> y, damage |-> d,
      is_critical |-> c, is_heal |-> h, is_miss |-> m] :
        x \in {0, MapWidth}, y \in {-1, 0, 1, MapHeight - 1}, d \in ShowDamages,
        c \in BOOLEAN, h \in BOOLEAN, m \in BOOLEAN}

\* icons of the older module's status animations: one inside the map, one in
\* its corner
EffectIcos == {MidIco, Ico(AllAttrs, 0, 0, 1, 1)}

EffectCalls ==
    {[op |-> "StatusEffectAnimation.play_effect_applied", target_ico |-> i,
      effect_name |-> e] :
        i \in EffectIcos,
        e \in DOMAIN EFFECT_VISUALS \cup {"unknown_effect", "spark", ""}}

\* DamageNumberDisplay().show(_map, x, y, damage, is_critical, is_heal, is_miss)
CallShow ==
    /\ pc = "idle"
    /\ \E c \in ShowCalls : call' = c
    /\ pc' = "show_call"
    /\ UNCHANGED <<ret, obj, loc, co, placed, ntok, fails, log, prims, raised, out>>

\* StatusEffectAnimation().play_effect_applied(_map, target_ico, effect_name)
CallEffectApplied ==
    /\ pc = "idle"
    /\ \E c \in EffectCalls : call' = c
    /\ pc' = "effect_call"
    /\ UNCHANGED <<ret, obj, loc, co, placed, ntok, fails, log, prims, raised, out>>

\* icons of the attacker and of the defender of a projectile: on the left
\* edge, on the right edge, in between, and beyond either edge
AttackerIcos ==
    {Ico(AllAttrs, 0, 0, 1, 1), Ico(AllAttrs, 0, 3, 1, 2),
     Ico(AllAttrs, MapWidth - 1, 1, 1, 1), Ico(AllAttrs, -2, 1, 1, 1)}

DefenderIcos ==
    {Ico(AllAttrs, MapWidth - 1, 0, 1, 1), Ico(AllAttrs, 0, 2, 1, 1),
     Ico(AllAttrs, 2, 4, 1, 2), Ico(AllAttrs, MapWidth + 1, 1, 1, 1)}

ProjectileCalls ==
    {[op |-> "AttackAnimationSystem._projectile_animation",
      attacker_ico |-> a, defender_ico |-> d] : a \in AttackerIcos, d \in DefenderIcos}

\* AttackAnimationSystem()._projectile_animation(_map, attacker_ico,
\* defender_ico, char, color)
CallProjectile ==
    /\ pc = "idle"
    /\ \E c \in ProjectileCalls : call' = c
    /\ pc' = "proj_call"
    /\ UNCHANGED <<ret, obj, loc, co, placed, ntok, fails, log, prims, raised, out>>

NextOld ==
    \/ CallShow
    \/ CallEffectApplied
    \/ CallProjectile
    \/ DamageNumberDisplayShow
    \/ StatusEffectAnimationPlay
    \/ ProjectileAnimation

SpecOld == Init /\ [][NextOld]_vars

\* ================================================================ claims
CoordinatorOps ==
    {"play_attack_animation", "play_status_effect_animation", "play_heal_animation"}

PrimitivePlays ==
    {"DamageNumber.play", "StatusEffectIndicator.play", "HitFlash.play",
     "TypeParticles.play", "EffectivityIndicator.play"}

\* control is inside play() of a primitive animator
InPlay ==
    pc \in {"dn_play", "dn_loop", "dn_miss", "dn_cleanup", "se_play", "se_loop",
            "se_remove", "ss_play", "hf_play", "hf_frame", "tp_play", "tp_move",
            "ei_play", "ei_show"}

TargetOf(c) == IF c.op = "play_attack_animation" THEN c.defender ELSE c.target

\* tokens added with success among the first n entries of log and not removed
\* among them
LiveAt(n) ==
    {i \in 1..n : /\ log[i].op = "add"
                  /\ log[i].ok
                  /\ \A j \in (i + 1)..n :
                       ~(log[j].op = "remove" /\ log[j].tok = log[i].tok)}

HasFailed(kind) == \E i \in 1..Len(log) : log[i].op = kind /\ ~log[i].ok

\* C1: when play() of a primitive animator has returned, whatever adds and
\* moves failed, none of the tokens it created is on the surface: the surface
\* holds no token, and every successful add of the log has its remove
C1_NoLeakedToken ==
    ~InPlay => /\ DOMAIN placed = {}
               /\ LiveAt(Len(log)) = {}

\* a DamageNumber played alone whose upward move failed after a successful
\* add, and which has returned
C1_Witness ==
    /\ pc = "done"
    /\ CalledOp = "DamageNumber.play"
    /\ HasFailed("move")
    /\ \E i \in 1..Len(log) : log[i].op = "remove"

PrimRank(cls) ==
    CASE cls = "HitFlash" -> 1
      [] cls = "DamageNumber" -> 2
      [] cls = "EffectivityIndicator" -> 3
      [] cls = "ScreenShake" -> 4
      [] OTHER -> 0

ScenarioCall ==
    /\ CalledOp = "play_attack_animation"
    /\ call.damage = 12
    /\ call.attack.factor10 = 10
    /\ call.effectiveness10 = 13
    /\ ~call.is_miss
    /\ call.defender.has_ico
    /\ call.defender.ico.attrs = AllAttrs

\* C2: in play_attack_animation the primitives played, and the surface
\* operations they issue, come in the order hit flash, damage number,
\* effectiveness label, screen shake; with damage 12, factor 1.0,
\* effectiveness 1.3 and no miss all four are played, the damage number showing
\* "!12!", the label "SUPER!", the shake being the CRITICAL one
C2_AttackOrder ==
    CalledOp = "play_attack_animation" =>
      /\ \A i \in 1..Len(prims) : \A j \in (i + 1)..Len(prims) :
           PrimRank(prims[i].cls) < PrimRank(prims[j].cls)
      /\ \A i \in 1..(Len(log) - 1) :
           PrimRank(log[i].prim) <= PrimRank(log[i + 1].prim)
      /\ (ScenarioCall /\ pc = "done") =>
           /\ Len(prims) = 4
           /\ prims[1].cls = "HitFlash"
           /\ prims[2].cls = "DamageNumber" /\ prims[2].text = "!12!"
           /\ prims[3].cls = "EffectivityIndicator" /\ prims[3].text = "SUPER!"
           /\ prims[4].cls = "ScreenShake" /\ prims[4].intensity = "CRITICAL"
           /\ \A c \in {"HitFlash", "DamageNumber", "EffectivityIndicator", "ScreenShake"} :
                \E i \in 1..Len(log) : log[i].prim = c

\* the scenario call has run to its end
C2_Witness ==
    /\ ScenarioCall
    /\ pc = "done"
    /\ raised = "none"
    /\ Len(log) > 0
    /\ log[Len(log)].prim = "ScreenShake"

\* C3: a BattleAnimator operation whose target has no icon issues no surface
\* operation, plays no primitive and returns without raising
C3_NoIconNoOp ==
    (CalledOp \in CoordinatorOps /\ ~TargetOf(call).has_ico) =>
      /\ log = <<>>
      /\ prims = <<>>
      /\ DOMAIN placed = {}
      /\ raised = "none"
      /\ pc \in {"atk_call", "status_call", "heal_call", "done"}

\* play_attack_animation has returned for a defender without icon
C3_Witness ==
    /\ CalledOp = "play_attack_animation"
    /\ ~call.defender.has_ico
    /\ pc = "done"

\* C4 as claimed: a BattleAnimator operation whose target icon lacks one of x,
\* y, width, height issues no surface operation and does not raise
C4_MalformedIconNoOp ==
    (/\ CalledOp \in CoordinatorOps
     /\ TargetOf(call).has_ico
     /\ TargetOf(call).ico.attrs # AllAttrs) =>
      /\ log = <<>>
      /\ raised = "none"

WellFormedCall ==
    \/ CalledOp \in CoordinatorOps /\ TargetOf(call).has_ico
                                   /\ TargetOf(call).ico.attrs = AllAttrs
    \/ CalledOp = "HitFlash.play" /\ obj.target_ico.attrs = AllAttrs
    \/ CalledOp \in PrimitivePlays \ {"HitFlash.play"}

\* C5: with a well-formed icon no failure of an add or a move reaches the
\* caller of play() or of the BattleAnimator operation: nothing is raised,
\* and the call goes on to its return
C5_FailuresAbsorbed ==
    WellFormedCall => /\ raised = "none"
                      /\ (HasFailed("add") \/ HasFailed("move")) =>
                           (InPlay \/ pc \in {"atk_dmg", "atk_eff", "atk_shake", "done"})

\* an attack on a well-formed icon has returned after a failed add and a
\* failed move
C5_Witness ==
    /\ CalledOp = "play_attack_animation"
    /\ WellFormedCall
    /\ HasFailed("add")
    /\ HasFailed("move")
    /\ pc = "done"
    /\ raised = "none"

\* C6: in a BattleAnimator operation every surface operation is issued while
\* no token of another primitive is on the surface, and the tokens on the
\* surface all belong to the primitive being played
C6_SequentialComposition ==
    CalledOp \in CoordinatorOps =>
      /\ \A n \in 1..Len(log) : \A i \in 1..(n - 1) :
           (log[i].op = "add" /\ log[i].ok /\ log[i].prim # log[n].prim) =>
             \E j \in (i + 1)..(n - 1) : log[j].op = "remove" /\ log[j].tok = log[i].tok
      /\ \A t \in DOMAIN placed :
           /\ InPlay
           /\ \E i \in 1..Len(log) :
                log[i].op = "add" /\ log[i].tok = t /\ log[i].prim = obj.cls

\* the damage number of an attack is on the surface after the hit flash has
\* placed and removed its texts
C6_Witness ==
    /\ CalledOp = "play_attack_animation"
    /\ pc = "dn_loop"
    /\ DOMAIN placed = {obj.tok}
    /\ \E i \in 1..Len(log) : log[i].prim = "HitFlash" /\ log[i].op = "remove"

TierRank(t) ==
    CASE t = "WEAK" -> 1 [] t = "NORMAL" -> 2 [] t = "STRONG" -> 3 [] t = "CRITICAL" -> 4

\* C7: get_animation_intensity(damage, factor), p = damage * factor, is WEAK
\* iff p <= 2, NORMAL iff 2 < p <= 5, STRONG iff 5 < p <= 10, CRITICAL iff
\* p > 10; it is non-decreasing in p; (1,1.0) is WEAK, (5,1.0) and (3,1.5)
\* NORMAL, (5,1.5) STRONG, (10,2.0) CRITICAL
C7_IntensityBands ==
    (pc = "done" /\ CalledOp = "get_animation_intensity") =>
      LET p10 == call.damage * call.factor10
          q10 == call.damage2 * call.factor10_2
      IN  /\ (out[1] = "WEAK") = (p10 <= 20)
          /\ (out[1] = "NORMAL") = (20 < p10 /\ p10 <= 50)
          /\ (out[1] = "STRONG") = (50 < p10 /\ p10 <= 100)
          /\ (out[1] = "CRITICAL") = (p10 > 100)
          /\ p10 <= q10 => TierRank(out[1]) <= TierRank(out[2])
          /\ (call.damage = 1 /\ call.factor10 = 10) => out[1] = "WEAK"
          /\ (call.damage = 5 /\ call.factor10 = 10) => out[1] = "NORMAL"
          /\ (call.damage = 3 /\ call.factor10 = 15) => out[1] = "NORMAL"
          /\ (call.damage = 5 /\ call.factor10 = 15) => out[1] = "STRONG"
          /\ (call.damage = 10 /\ call.factor10 = 20) => out[1] = "CRITICAL"

\* the boundary 10 classified beside a larger power
C7_Witness ==
    /\ pc = "done"
    /\ CalledOp = "get_animation_intensity"
    /\ call.damage = 5 /\ call.factor10 = 20
    /\ call.damage2 = 7 /\ call.factor10_2 = 15
    /\ out = <<"STRONG", "CRITICAL">>

AttackTypeKeys ==
    {"normal", "fire", "water", "plant", "electro", "ground", "stone", "ice",
     "flying", "poison", "undead"}

\* C8: get_type_effects never fails; for each of the 11 attack-type keys it
\* returns that key's entry of the table, for any other key the entry of
\* "normal"; the impact glyphs of the descriptor returned are never empty
C8_TypeEffectsTotal ==
    (pc = "done" /\ CalledOp = "get_type_effects") =>
      /\ DOMAIN out = {"color", "particle_char", "impact_chars", "trail_char"}
      /\ AttackTypeKeys = DOMAIN TYPE_EFFECT_CONFIG
      /\ Cardinality(AttackTypeKeys) = 11
      /\ call.type_name \in AttackTypeKeys => out = TYPE_EFFECT_CONFIG[call.type_name]
      /\ call.type_name \notin AttackTypeKeys =>
           out = [color |-> "white", particle_char |-> 42,
                  impact_chars |-> <<42, 120, 42>>, trail_char |-> 46]
      /\ call.type_name = "fire" => out.impact_chars = <<42, 8258, 10022, 42>>
      /\ Len(out.impact_chars) > 0

\* an unknown key has been looked up
C8_Witness ==
    /\ pc = "done"
    /\ CalledOp = "get_type_effects"
    /\ call.type_name = "unknown_type"
    /\ out.particle_char = 42

DamageNumbersPlayed == {i \in 1..Len(prims) : prims[i].cls = "DamageNumber"}

\* C9: the text of a DamageNumber is "+{amount}" for a heal (also for 0),
\* else "MISS" for amount 0 (also when critical), else "!{amount}!" when
\* critical, else "{amount}"
C9_DamageNumberText ==
    \A i \in DamageNumbersPlayed :
      LET d == prims[i]
      IN  /\ d.is_heal => d.text = "+" \o ToString(d.damage)
          /\ (~d.is_heal /\ d.damage = 0) => d.text = "MISS"
          /\ (~d.is_heal /\ d.damage # 0 /\ d.is_critical) =>
               d.text = "!" \o ToString(d.damage) \o "!"
          /\ (~d.is_heal /\ d.damage # 0 /\ ~d.is_critical) => d.text = ToString(d.damage)
          /\ (~d.is_heal /\ d.damage = 7 /\ d.is_critical) => d.text = "!7!"
          /\ (~d.is_heal /\ d.damage = 7 /\ ~d.is_critical) => d.text = "7"
          /\ (d.is_heal /\ d.damage = 0) => d.text = "+0"
          /\ d.text # "0"

\* a critical DamageNumber of amount 0 has been built: it shows MISS
C9_Witness ==
    /\ obj # None
    /\ obj.cls = "DamageNumber"
    /\ obj.damage = 0
    /\ obj.is_critical
    /\ ~obj.is_heal
    /\ obj.text = "MISS"

\* C10: once the first add of a DamageNumber has failed, play() has returned:
\* the failed add is the last operation of that DamageNumber (no redraw, wait,
\* move or remove follows it), its token is not on the surface, control is not
\* in its play() and nothing is raised
C10_FailedAddReturns ==
    \A i \in 1..Len(log) :
      (log[i].prim = "DamageNumber" /\ log[i].op = "add" /\ ~log[i].ok) =>
        /\ \A j \in (i + 1)..Len(log) : log[j].prim # "DamageNumber"
        /\ pc \notin {"dn_play", "dn_loop", "dn_miss", "dn_cleanup"}
        /\ log[i].tok \notin DOMAIN placed
        /\ raised = "none"

\* a DamageNumber on the miss path, played alone, whose add failed inside the
\* map: play() has returned with that add as the only operation
C10_Witness ==
    /\ CalledOp = "DamageNumber.play"
    /\ obj.text = "MISS"
    /\ pc = "done"
    /\ Len(log) = 1
    /\ ~log[1].ok
    /\ InBounds(log[1].x, log[1].y)

\* ---------------------------------------------------------------- C11
IsDN(e) == e.prim = "DamageNumber"

\* the operations of the DamageNumber, in the order issued
DNLog == SelectSeq(log, IsDN)

\* the DamageNumber built last is on the rising path of play()
DNRising ==
    /\ obj # None
    /\ obj.cls = "DamageNumber"
    /\ ~(obj.damage = 0 /\ ~obj.is_heal)

CountOps(s, kind) == Cardinality({k \in 1..Len(s) : s[k].op = kind})

\* row of the text after the first k operations of s, s[1] being its add
RowAfter(s, k) ==
    s[1].y - Cardinality({j \in 2..k : s[j].op = "move" /\ s[j].ok})

\* C11 as claimed: on the rising path of DamageNumber.play, once the text has
\* been moved up to row 1 no further redraw or wait is issued: the loop is left
\* for the cleanup
C11_StopsAtTopMargin ==
    [][(/\ pc = "dn_loop"
        /\ obj.y <= 1
        /\ loc.i < loc.steps
        /\ \E k \in 1..Len(log) : log[k].op = "move" /\ log[k].ok)
       => (pc' = "dn_cleanup" /\ log' = log)]_vars

\* C11 amended: on the rising path, after a successful add, play() runs
\* steps = max(3, int(duration / 0.15)) passes, each a redraw and a wait of
\* duration / steps, followed by a move one row up only while the text is below
\* row 1; at row 1 or above the passes go on without the move; only a failed
\* move ends the loop early; the text is removed at the end in every case
C11_RisingLoop ==
    (DNRising /\ Len(DNLog) > 0 /\ DNLog[1].ok) =>
      LET s == DNLog
          steps == DamageNumberSteps(loc.duration100)
          failed == \E k \in 2..Len(s) : s[k].op = "move" /\ ~s[k].ok
      IN  /\ \A k \in 2..Len(s) :
               /\ s[k].op = "show" =>
                    /\ k < Len(s)
                    /\ s[k + 1] = OpSleep("DamageNumber", loc.duration100, steps)
               /\ s[k].op = "sleep" =>
                    /\ s[k - 1].op = "show"
                    /\ (k < Len(s) /\ s[k + 1].op = "move") = (RowAfter(s, k) > 1)
               /\ s[k].op = "move" =>
                    /\ s[k - 1].op = "sleep"
                    /\ s[k].dx = 0 /\ s[k].dy = -1
                    /\ ~s[k].ok => (k = Len(s) \/ (k = Len(s) - 1 /\ s[k + 1].op = "remove"))
               /\ s[k].op = "remove" => k = Len(s)
               /\ s[k].op # "add"
          /\ CountOps(s, "show") <= steps
          /\ pc \notin {"dn_play", "dn_loop", "dn_cleanup"} =>
               /\ s[Len(s)] = OpRemove("DamageNumber", s[1].tok)
               /\ s[1].tok \notin DOMAIN placed
               /\ ~failed => /\ CountOps(s, "show") = steps
                             /\ CountOps(s, "sleep") = steps

\* a DamageNumber added on row 2 with duration 0.8 has returned: it was moved
\* once and redrawn five times, four of them on row 1
C11_Witness ==
    /\ CalledOp = "DamageNumber.play"
    /\ DNRising
    /\ pc = "done"
    /\ Len(log) > 0
    /\ log[1].ok /\ log[1].y = 2
    /\ CountOps(log, "show") = 5
    /\ CountOps(log, "move") = 1
    /\ ~HasFailed("move")

\* ---------------------------------------------------------------- C12
\* the DamageNumber built last is on the miss path of play()
DNMiss ==
    /\ obj # None
    /\ obj.cls = "DamageNumber"
    /\ obj.damage = 0 /\ ~obj.is_heal

DNReturned == pc \notin {"dn_play", "dn_loop", "dn_miss", "dn_cleanup"}

\* C12 as claimed: a DamageNumber on the miss path whose add succeeded has, at
\* its return, issued 3 redraws and 3 waits in total and removed its text
C12_ThreeRedraws ==
    (DNMiss /\ DNReturned /\ Len(DNLog) > 0 /\ DNLog[1].ok) =>
      /\ CountOps(DNLog, "show") = 3
      /\ CountOps(DNLog, "sleep") = 3
      /\ DNLog[Len(DNLog)].op = "remove"

\* C12 amended: on the miss path, after a successful add, play() runs 3 passes
\* of two half-cycles each, a half-cycle being a redraw, a wait of 0.1 and a
\* horizontal move of one column left or right: 6 redraws, 6 waits and 6 moves
\* in total, then the removal; a failed move ends neither the oscillation nor
\* the removal
C12_MissOscillation ==
    (DNMiss /\ Len(DNLog) > 0 /\ DNLog[1].ok) =>
      LET s == DNLog
      IN  /\ \A k \in 2..Len(s) :
               /\ s[k].op = "show" =>
                    /\ k + 2 <= Len(s)
                    /\ s[k + 1] = OpSleep("DamageNumber", 10, 1)
                    /\ s[k + 2].op = "move"
               /\ s[k].op = "sleep" => s[k - 1].op = "show"
               /\ s[k].op = "move" =>
                    /\ s[k - 1].op = "sleep"
                    /\ s[k].dy = 0 /\ s[k].dx \in {-1, 1}
               /\ s[k].op = "remove" => k = Len(s)
               /\ s[k].op # "add"
          /\ CountOps(s, "show") <= 6
          /\ DNReturned =>
               /\ CountOps(s, "show") = 6
               /\ CountOps(s, "sleep") = 6
               /\ CountOps(s, "move") = 6
               /\ s[Len(s)] = OpRemove("DamageNumber", s[1].tok)
               /\ s[1].tok \notin DOMAIN placed

\* a miss added in the last column has returned after a move to the right
\* failed on the edge of the map
C12_Witness ==
    /\ CalledOp = "DamageNumber.play"
    /\ DNMiss
    /\ pc = "done"
    /\ Len(log) = 20
    /\ log[1].ok
    /\ \E k \in 2..Len(log) : log[k].op = "move" /\ ~log[k].ok /\ log[k].dx = 1
    /\ log[Len(log)].op = "remove"

\* ---------------------------------------------------------------- C13
IsSEI(e) == e.prim = "StatusEffectIndicator"

\* the operations of the StatusEffectIndicator, in the order issued
SEILog == SelectSeq(log, IsSEI)

RecognizedEffects ==
    {"paralyzation", "sleep", "burning", "poison", "confusion", "freezing"}

\* C13 as claimed: a StatusEffectIndicator whose effect name is none of the
\* six recognized ones renders nothing: its play() issues no add and no redraw
C13_UnknownEffectNoRender ==
    (/\ obj # None
     /\ obj.cls = "StatusEffectIndicator"
     /\ obj.effect_name \notin RecognizedEffects) =>
      \A k \in 1..Len(SEILog) :
        /\ ~(SEILog[k].op = "add" /\ SEILog[k].ok)
        /\ SEILog[k].op # "show"

\* ---------------------------------------------------------------- C14
SEIReturned == pc \notin {"se_play", "se_loop", "se_remove"}

\* C14: for a recognized effect the text of a StatusEffectIndicator is "+"
\* followed by the effect's symbol when is_applied, "-" followed by it
\* otherwise; after its add, play() runs at most 3 cycles of redraw, wait of
\* duration / 6 and move one row up, the first failed move ending the cycles,
\* and then removes the text; with no failure there are exactly 3 redraws and
\* 3 moves up
C14_StatusIndicator ==
    (/\ obj # None
     /\ obj.cls = "StatusEffectIndicator"
     /\ obj.effect_name \in RecognizedEffects) =>
      LET s == SEILog
          failed == \E k \in 2..Len(s) : s[k].op = "move" /\ ~s[k].ok
      IN  /\ RecognizedEffects = DOMAIN EFFECT_SYMBOLS
          /\ obj.text = <<IF obj.is_applied THEN "+" ELSE "-",
                          EFFECT_SYMBOLS[obj.effect_name]>>
          /\ (obj.effect_name = "sleep" /\ ~obj.is_applied) => obj.text = <<"-", 90>>
          /\ (obj.effect_name = "burning" /\ obj.is_applied) => obj.text = <<"+", 128293>>
          /\ (Len(s) > 0 /\ s[1].ok) =>
               /\ \A k \in 2..Len(s) :
                    /\ s[k].op = "show" =>
                         /\ k + 2 <= Len(s)
                         /\ s[k + 1] = OpSleep("StatusEffectIndicator", loc.duration100, 6)
                         /\ s[k + 2].op = "move"
                    /\ s[k].op = "sleep" => s[k - 1].op = "show"
                    /\ s[k].op = "move" =>
                         /\ s[k - 1].op = "sleep"
                         /\ s[k].dx = 0 /\ s[k].dy = -1
                         /\ ~s[k].ok =>
                              (k = Len(s) \/ (k = Len(s) - 1 /\ s[k + 1].op = "remove"))
                    /\ s[k].op = "remove" => k = Len(s)
                    /\ s[k].op # "add"
               /\ CountOps(s, "show") <= 3
               /\ SEIReturned =>
                    /\ s[Len(s)] = OpRemove("StatusEffectIndicator", s[1].tok)
                    /\ s[1].tok \notin DOMAIN placed
                    /\ ~failed => /\ CountOps(s, "show") = 3
                                  /\ CountOps(s, "move") = 3
                    /\ failed => ~s[Len(s) - 1].ok

\* a "-Z" indicator has returned after its second move up failed
C14_Witness ==
    /\ CalledOp = "StatusEffectIndicator.play"
    /\ obj.effect_name = "sleep"
    /\ ~obj.is_applied
    /\ pc = "done"
    /\ Len(log) = 8
    /\ log[1].ok
    /\ log[4].op = "move" /\ log[4].ok
    /\ log[7].op = "move" /\ ~log[7].ok
    /\ log[8].op = "remove"

\* ---------------------------------------------------------------- C15
IsSS(e) == e.prim = "ScreenShake"

\* the operations of the ScreenShake, in the order issued
SSLog == SelectSeq(log, IsSS)

\* C15: ScreenShake has magnitude 0, 1, 2, 3 for WEAK, NORMAL, STRONG,
\* CRITICAL; its play() issues nothing for magnitude 0 and else exactly
\* magnitude * 2 cycles of a redraw and a wait; it adds, moves and removes no
\* text, and no text is on the surface while it runs or when it returns
C15_ScreenShake ==
    (obj # None /\ obj.cls = "ScreenShake") =>
      LET s == SSLog
          amount == CASE obj.intensity = "WEAK" -> 0
                      [] obj.intensity = "NORMAL" -> 1
                      [] obj.intensity = "STRONG" -> 2
                      [] obj.intensity = "CRITICAL" -> 3
      IN  /\ \A k \in 1..Len(s) :
               /\ s[k].op \in {"show", "sleep"}
               /\ (s[k].op = "show") = (k % 2 = 1)
               /\ s[k].op = "sleep" => s[k] = OpSleep("ScreenShake", 3, 1)
          /\ Len(s) % 2 = 0
          /\ Len(s) <= amount * 4
          /\ pc # "ss_play" => /\ CountOps(s, "show") = amount * 2
                               /\ CountOps(s, "sleep") = amount * 2
          /\ amount = 0 => s = <<>>
          /\ DOMAIN placed = {}
          /\ CalledOp = "ScreenShake.play" => (ntok = 0 /\ log = s)

\* a CRITICAL shake played alone has returned after 6 redraws
C15_Witness ==
    /\ CalledOp = "ScreenShake.play"
    /\ obj.intensity = "CRITICAL"
    /\ pc = "done"
    /\ CountOps(log, "show") = 6
    /\ Len(log) = 12

\* ---------------------------------------------------------------- C16
IsHF(e) == e.prim = "HitFlash"

\* the operations of the HitFlash, in the order issued
HFLog == SelectSeq(log, IsHF)

\* the j-th corner just outside the icon
Corner(ico, j) ==
    CASE j = 1 -> <<ico.x - 1, ico.y>>
      [] j = 2 -> <<ico.x + ico.width, ico.y>>
      [] j = 3 -> <<ico.x - 1, ico.y + ico.height - 1>>
      [] j = 4 -> <<ico.x + ico.width, ico.y + ico.height - 1>>

\* the flashes argument of the play() that is running or has run
FlashesArg == IF CalledOp = "HitFlash.play" THEN call.flashes ELSE 2

\* C16: HitFlash.play(flashes) on an icon with x, y, width and height runs
\* exactly min(flashes, number of impact glyphs) frames; a frame is one add at
\* each of the four corners (x-1, y), (x+width, y), (x-1, y+height-1),
\* (x+width, y+height-1), then a redraw, a wait, and the removal of every text
\* the frame added; a failed add skips that corner only; at most 4 texts are on
\* the surface at any time and none between two frames or after the return
C16_HitFlashFrames ==
    (obj # None /\ obj.cls = "HitFlash" /\ obj.target_ico.attrs = AllAttrs) =>
      LET s == HFLog
          ico == obj.target_ico
          betweenFrames == pc # "hf_frame" \/ loc.k = 1
      IN  /\ \A k \in 1..Len(s) :
               /\ s[k].op = "show" =>
                    /\ k > 4
                    /\ \A j \in 1..4 : /\ s[k - 5 + j].op = "add"
                                       /\ <<s[k - 5 + j].x, s[k - 5 + j].y>> = Corner(ico, j)
                    /\ s[k + 1] = OpSleep("HitFlash", 8, 1)
                    /\ LET oks == {j \in 1..4 : s[k - 5 + j].ok}
                       IN  /\ k + 1 + Cardinality(oks) <= Len(s)
                           /\ \A m \in 1..Cardinality(oks) : s[k + 1 + m].op = "remove"
                           /\ {s[k + 1 + m].tok : m \in 1..Cardinality(oks)}
                                = {s[k - 5 + j].tok : j \in oks}
                           /\ k + 2 + Cardinality(oks) <= Len(s) =>
                                s[k + 2 + Cardinality(oks)].op = "add"
               /\ s[k].op = "sleep" => s[k - 1].op = "show"
               /\ s[k].op \in {"add", "show", "sleep", "remove"}
          /\ Cardinality(DOMAIN placed) <= 4
          /\ betweenFrames =>
               /\ DOMAIN placed = {}
               /\ CountOps(s, "add") = 4 * CountOps(s, "show")
          /\ CountOps(s, "show") <= Min(FlashesArg, Len(obj.type_effects.impact_chars))
          /\ pc \notin {"hf_play", "hf_frame"} =>
               CountOps(s, "show") = Min(FlashesArg, Len(obj.type_effects.impact_chars))

\* a flash of 4 frames asked on the 3 glyphs of "normal" has returned after 3
\* frames, one of its adds having failed and one succeeded
C16_Witness ==
    /\ CalledOp = "HitFlash.play"
    /\ call.flashes = 4
    /\ Len(obj.type_effects.impact_chars) = 3
    /\ pc = "done"
    /\ raised = "none"
    /\ CountOps(log, "show") = 3
    /\ \E k \in 1..Len(log) : log[k].op = "add" /\ ~log[k].ok
    /\ \E k \in 1..Len(log) : log[k].op = "remove"

\* ---------------------------------------------------------------- C17
IsEI(e) == e.prim = "EffectivityIndicator"

\* the operations of the EffectivityIndicator, in the order issued
EILog == SelectSeq(log, IsEI)

\* C17: the text of an EffectivityIndicator is "SUPER!" for an effectiveness
\* above 1, "WEAK..." below 1 and empty at 1; with effectiveness 1 play()
\* issues no add and no redraw; otherwise play() adds the label at its
\* position and, the add having succeeded, redraws once, waits the duration
\* and removes the label (a failed add being the only operation issued)
C17_EffectivityIndicator ==
    (obj # None /\ obj.cls = "EffectivityIndicator") =>
      LET s == EILog
          e == obj.effectiveness10
      IN  /\ (obj.text = "SUPER!") = (e > 10)
          /\ (obj.text = "WEAK...") = (e < 10)
          /\ (obj.text = "") = (e = 10)
          /\ e = 10 => s = <<>>
          /\ Len(s) > 0 =>
               /\ s[1].op = "add"
               /\ <<s[1].x, s[1].y>> = <<obj.x, obj.y>>
               /\ ~s[1].ok => (Len(s) = 1 /\ pc # "ei_show")
               /\ s[1].ok => \/ (Len(s) = 1 /\ pc = "ei_show")
                             \/ /\ s = <<s[1], OpShow("EffectivityIndicator"),
                                         OpSleep("EffectivityIndicator", loc.duration100, 1),
                                         OpRemove("EffectivityIndicator", s[1].tok)>>
                                /\ pc \notin {"ei_play", "ei_show"}
          /\ (e # 10 /\ pc \notin {"ei_play", "ei_show"}) =>
               /\ Len(s) > 0
               /\ s[1].tok \notin DOMAIN placed

\* a "WEAK..." label played alone has been added, shown once and removed
C17_Witness ==
    /\ CalledOp = "EffectivityIndicator.play"
    /\ obj.text = "WEAK..."
    /\ pc = "done"
    /\ Len(log) = 4
    /\ log[1].ok
    /\ log[2].op = "show"
    /\ log[4].op = "remove"

\* an EffectivityIndicator of effectiveness 1 played alone has returned
C17_WitnessNeutral ==
    /\ CalledOp = "EffectivityIndicator.play"
    /\ obj.effectiveness10 = 10
    /\ pc = "done"
    /\ log = <<>>

\* ---------------------------------------------------------------- C18
\* the primitives of a class played so far
PlayedOf(cls) == {i \in 1..Len(prims) : prims[i].cls = cls}

\* play_attack_animation is past the point where the label is played or not
PastLabel == pc \in {"ei_play", "ei_show", "atk_shake", "ss_play", "done"}

\* C18 as claimed: in play_attack_animation the effectiveness label is one row
\* above and two columns left of the anchor of the damage number, wherever
\* the defender's icon is
C18_LabelOneRowAbove ==
    CalledOp = "play_attack_animation" =>
      \A i \in PlayedOf("DamageNumber") : \A j \in PlayedOf("EffectivityIndicator") :
        /\ prims[j].x = prims[i].x - 2
        /\ prims[j].y = prims[i].y - 1

\* C18 amended: in play_attack_animation on an icon with x, y, width and
\* height the effectiveness label is played exactly when the attack is no miss
\* and the effectiveness is not 1; whenever it is played it is
\* added two columns left of the damage number's anchor, on row
\* max(1, icon.y - 2): one row above the damage number's anchor for an icon on
\* row 3 or below, and on row 1, the row of the damage number's anchor, for an
\* icon on row 0, 1 or 2
C18_LabelPosition ==
    (CalledOp = "play_attack_animation" /\ raised = "none") =>
      LET ico == call.defender.ico
      IN  /\ (PastLabel /\ WellFormedCall) =>
               (PlayedOf("EffectivityIndicator") # {})
                 = (~call.is_miss /\ call.effectiveness10 # 10)
          /\ \A i \in PlayedOf("DamageNumber") : \A j \in PlayedOf("EffectivityIndicator") :
               /\ i < j
               /\ prims[j].x = prims[i].x - 2
               /\ prims[j].y = Max(1, ico.y - 2)
               /\ ico.y >= 3 => prims[j].y = prims[i].y - 1
               /\ ico.y <= 2 => (prims[j].y = 1 /\ prims[i].y = 1)
               /\ \A k \in 1..Len(log) :
                    (log[k].prim = "EffectivityIndicator" /\ log[k].op = "add") =>
                      <<log[k].x, log[k].y>> = <<prims[j].x, prims[j].y>>

\* the label of an attack on an icon of row 1 has been added on row 1, the
\* row of the damage number's anchor
C18_Witness ==
    /\ CalledOp = "play_attack_animation"
    /\ call.defender.ico.y = 1
    /\ pc = "ei_show"
    /\ obj.y = 1
    /\ \E i \in PlayedOf("DamageNumber") : prims[i].y = 1 /\ prims[i].x = obj.x + 2
    /\ obj.tok \in DOMAIN placed
    /\ placed[obj.tok] = <<obj.x, 1>>

\* ---------------------------------------------------------------- C19
\* play_attack_animation is past the point where the damage number is built
PastDamageNumber ==
    pc \in {"dn_play", "dn_loop", "dn_miss", "dn_cleanup", "atk_eff", "ei_play",
            "ei_show", "atk_shake", "ss_play", "done"}

\* C19: in play_attack_animation the damage number is anchored at column
\* icon.x + width // 2 (half the width rounded down) and row
\* max(1, icon.y - 1): row 1 for an icon on row 0, 1 or 2, the row above the
\* icon otherwise; its add is issued at that cell
C19_DamageAnchor ==
    (CalledOp = "play_attack_animation" /\ raised = "none") =>
      LET ico == call.defender.ico
          half == CASE ico.width = 3 -> 1 [] ico.width = 4 -> 2
                    [] ico.width = 5 -> 2 [] OTHER -> -1
          row == IF ico.y <= 2 THEN 1 ELSE ico.y - 1
      IN  /\ (PastDamageNumber /\ WellFormedCall) => PlayedOf("DamageNumber") # {}
          /\ \A i \in PlayedOf("DamageNumber") :
               /\ prims[i].x = ico.x + half
               /\ prims[i].y = row
               /\ prims[i].y >= 1
               /\ \A k \in 1..Len(log) :
                    (log[k].prim = "DamageNumber" /\ log[k].op = "add") =>
                      <<log[k].x, log[k].y>> = <<ico.x + half, row>>

\* the damage number of an attack on an icon of row 0 and width 4 has been
\* added on row 1, two columns right of the icon's left edge
C19_Witness ==
    /\ CalledOp = "play_attack_animation"
    /\ call.defender.ico.y = 0
    /\ call.defender.ico.width = 4
    /\ pc = "dn_loop"
    /\ placed[obj.tok] = <<call.defender.ico.x + 2, 1>>

\* ---------------------------------------------------------------- C20
\* C20: in play_attack_animation the damage number is critical exactly when
\* the effectiveness is above 1.2 and the damage above 5, so neither at
\* effectiveness 1.2 nor at damage 5; on a miss the amount given to the damage
\* number is 0 whatever the damage, else it is the damage
C20_CriticalAndMiss ==
    CalledOp = "play_attack_animation" =>
      \A i \in PlayedOf("DamageNumber") :
        /\ prims[i].is_critical = (call.effectiveness10 > 12 /\ call.damage > 5)
        /\ call.effectiveness10 = 12 => ~prims[i].is_critical
        /\ call.damage = 5 => ~prims[i].is_critical
        /\ (call.effectiveness10 = 13 /\ call.damage = 6) => prims[i].is_critical
        /\ call.is_miss => (prims[i].damage = 0 /\ prims[i].text = "MISS")
        /\ ~call.is_miss => prims[i].damage = call.damage
        /\ ~prims[i].is_heal

\* a miss of damage 12 and effectiveness 1.3: the damage number is built
\* critical with the amount 0
C20_Witness ==
    /\ CalledOp = "play_attack_animation"
    /\ call.is_miss
    /\ call.damage = 12
    /\ call.effectiveness10 = 13
    /\ pc = "dn_play"
    /\ obj.damage = 0
    /\ obj.is_critical

\* an attack of damage 6 at effectiveness 1.2, and one of damage 5 at
\* effectiveness 1.3, whose damage numbers are not critical
C20_WitnessBoundary ==
    /\ CalledOp = "play_attack_animation"
    /\ ~call.is_miss
    /\ \/ call.damage = 6 /\ call.effectiveness10 = 12
       \/ call.damage = 5 /\ call.effectiveness10 = 13
    /\ pc = "dn_play"
    /\ ~obj.is_critical

\* ---------------------------------------------------------------- C21
\* column of the horizontal center of an icon of width 3 or 4
CenterOf(ico) == ico.x + (CASE ico.width = 3 -> 1 [] ico.width = 4 -> 2 [] OTHER -> -1)

\* C21 as claimed: play_heal_animation and play_status_effect_animation
\* anchor their text at the same cell, the icon's horizontal center one row
\* above the icon, wherever the icon is, and the heal number shows
\* "+{heal_amount}"
C21_SameAnchor ==
    /\ CalledOp = "play_heal_animation" =>
         \A i \in PlayedOf("DamageNumber") :
           /\ <<prims[i].x, prims[i].y>>
                = <<CenterOf(call.target.ico), call.target.ico.y - 1>>
           /\ prims[i].text = "+" \o ToString(call.heal_amount)
    /\ CalledOp = "play_status_effect_animation" =>
         \A i \in PlayedOf("StatusEffectIndicator") :
           <<prims[i].x, prims[i].y>>
             = <<CenterOf(call.target.ico), call.target.ico.y - 1>>

\* C21 amended: for the same icon the two operations anchor their text in the
\* same column, the icon's horizontal center; play_status_effect_animation on
\* row icon.y - 1 and play_heal_animation on row max(1, icon.y - 1), so on the
\* same cell exactly for icons of row 2 or below and on row 1 instead of row
\* -1 or 0 for icons of row 0 or 1; the heal number is built with is_heal and
\* shows "+{heal_amount}"
C21_HealAnchor ==
    /\ (CalledOp = "play_heal_animation" /\ raised = "none") =>
         LET ico == call.target.ico
         IN  /\ (pc # "heal_call" /\ WellFormedCall) => PlayedOf("DamageNumber") # {}
             /\ \A i \in PlayedOf("DamageNumber") :
                  /\ prims[i].x = CenterOf(ico)
                  /\ prims[i].y = (IF ico.y <= 1 THEN 1 ELSE ico.y - 1)
                  /\ prims[i].is_heal
                  /\ prims[i].text = "+" \o ToString(call.heal_amount)
                  /\ call.heal_amount = 5 => prims[i].text = "+5"
                  /\ \A k \in 1..Len(log) :
                       log[k].op = "add" => <<log[k].x, log[k].y>> = <<prims[i].x, prims[i].y>>
    /\ (CalledOp = "play_status_effect_animation" /\ raised = "none") =>
         LET ico == call.target.ico
         IN  /\ (pc # "status_call" /\ WellFormedCall) =>
                  PlayedOf("StatusEffectIndicator") # {}
             /\ \A i \in PlayedOf("StatusEffectIndicator") :
                  /\ prims[i].x = CenterOf(ico)
                  /\ prims[i].y = ico.y - 1
                  /\ \A k \in 1..Len(log) :
                       log[k].op = "add" => <<log[k].x, log[k].y>> = <<prims[i].x, prims[i].y>>

\* the heal number of an icon of row 0 is on the surface on row 1
C21_Witness ==
    /\ CalledOp = "play_heal_animation"
    /\ call.target.ico.y = 0
    /\ call.heal_amount = 5
    /\ pc = "dn_loop"
    /\ obj.text = "+5"
    /\ placed[obj.tok] = <<CenterOf(call.target.ico), 1>>

\* the indicator of a status effect on an icon of row 1 is on the surface on
\* row 0
C21_WitnessStatus ==
    /\ CalledOp = "play_status_effect_animation"
    /\ call.target.ico.y = 1
    /\ pc = "se_loop"
    /\ placed[obj.tok] = <<CenterOf(call.target.ico), 0>>

\* ---------------------------------------------------------------- C22
\* C22: in play_attack_animation on an icon with x, y, width and height the
\* screen shake is played exactly when damage * factor is above 5, the
\* intensity then being STRONG (up to 10) or CRITICAL (above 10); the shake
\* issues 4 redraws for STRONG and 6 for CRITICAL, and no shake redraw is
\* issued for WEAK and NORMAL
C22_ShakeIffStrong ==
    (CalledOp = "play_attack_animation" /\ WellFormedCall) =>
      LET p10 == call.damage * call.attack.factor10
          shakes == PlayedOf("ScreenShake")
      IN  /\ p10 <= 50 => (shakes = {} /\ SSLog = <<>>)
          /\ pc \in {"ss_play", "done"} => (shakes # {}) = (p10 > 50)
          /\ \A i \in shakes :
               /\ p10 > 50
               /\ prims[i].intensity = (IF p10 <= 100 THEN "STRONG" ELSE "CRITICAL")
               /\ i = Len(prims)
          /\ pc = "done" =>
               CountOps(SSLog, "show")
                 = (IF p10 <= 50 THEN 0 ELSE IF p10 <= 100 THEN 4 ELSE 6)

\* an attack of damage 5 and factor 2.0, effective power 10, has returned
\* after the 4 redraws of a STRONG shake
C22_Witness ==
    /\ CalledOp = "play_attack_animation"
    /\ call.damage = 5
    /\ call.attack.factor10 = 20
    /\ pc = "done"
    /\ raised = "none"
    /\ CountOps(SSLog, "show") = 4
    /\ prims[Len(prims)].cls = "ScreenShake"

\* an attack of damage 5 and factor 1.0, effective power 5, has returned
\* without a shake
C22_WitnessNormal ==
    /\ CalledOp = "play_attack_animation"
    /\ call.damage = 5
    /\ call.attack.factor10 = 10
    /\ pc = "done"
    /\ raised = "none"
    /\ Len(log) > 0
    /\ SSLog = <<>>

\* ---------------------------------------------------------------- C23
\* C23: in play_attack_animation past the icon guard the hit flash is played
\* exactly when is_miss is false and the damage is above 0; when played it is
\* the first primitive played and the first operation on the surface is its
\* own; when not played no operation of a hit flash is issued
C23_HitFlashFirst ==
    (/\ CalledOp = "play_attack_animation"
     /\ call.defender.has_ico
     /\ "x" \in call.defender.ico.attrs
     /\ pc # "atk_call") =>
      LET flashes == PlayedOf("HitFlash")
      IN  /\ (flashes # {}) = (~call.is_miss /\ call.damage > 0)
          /\ flashes \subseteq {1}
          /\ (flashes # {} /\ log # <<>>) => log[1].prim = "HitFlash"
          /\ (flashes # {} /\ pc \notin {"hf_play", "hf_frame"}
                /\ call.defender.ico.attrs = AllAttrs) =>
               /\ log # <<>>
               /\ CountOps(HFLog, "show") = 2
          /\ flashes = {} => HFLog = <<>>
          /\ (call.damage = 0 /\ ~call.is_miss) => flashes = {}
          /\ (call.damage = 12 /\ call.is_miss) => flashes = {}

\* a miss of damage 12 has returned: the surface was used, not by a hit flash
C23_Witness ==
    /\ CalledOp = "play_attack_animation"
    /\ call.is_miss
    /\ call.damage = 12
    /\ pc = "done"
    /\ raised = "none"
    /\ log # <<>>
    /\ log[1].prim = "DamageNumber"

\* a hit of damage 0 has returned: the surface was used, not by a hit flash
C23_WitnessZero ==
    /\ CalledOp = "play_attack_animation"
    /\ ~call.is_miss
    /\ call.damage = 0
    /\ pc = "done"
    /\ raised = "none"
    /\ log # <<>>
    /\ HFLog = <<>>

\* ---------------------------------------------------------------- C24
\* the entries of log about the text tok
OpsOn(tok, kind) ==
    {k \in 1..Len(log) : log[k].op = kind /\ "tok" \in DOMAIN log[k] /\ log[k].tok = tok}

\* C24: TypeParticles.play issues exactly
\* max(|end_x - start_x|, |end_y - start_y|, 1) redraws, each followed by a
\* wait, whatever adds and moves fail; a particle whose add failed is never
\* moved nor removed; a particle whose add succeeded is moved once in every
\* step, also after a failed move, and removed once, after the last redraw
C24_TypeParticles ==
    (obj # None /\ obj.cls = "TypeParticles") =>
      LET ax == IF obj.end_x >= obj.start_x THEN obj.end_x - obj.start_x
                ELSE obj.start_x - obj.end_x
          ay == IF obj.end_y >= obj.start_y THEN obj.end_y - obj.start_y
                ELSE obj.start_y - obj.end_y
          steps == IF ax >= ay /\ ax >= 1 THEN ax ELSE IF ay >= 1 THEN ay ELSE 1
          shows == {k \in 1..Len(log) : log[k].op = "show"}
      IN  /\ Cardinality(shows) <= steps
          /\ \A k \in shows : log[k + 1] = OpSleep("TypeParticles", 5, 1)
          /\ CountOps(log, "add") <= call.num_particles
          /\ \A k \in 1..Len(log) :
               log[k].op = "add" =>
                 IF log[k].ok
                 THEN /\ Cardinality(OpsOn(log[k].tok, "move")) <= steps
                      /\ \A r \in OpsOn(log[k].tok, "remove") : \A j \in shows : j < r
                      /\ pc = "done" =>
                           /\ Cardinality(OpsOn(log[k].tok, "move")) = steps
                           /\ Cardinality(OpsOn(log[k].tok, "remove")) = 1
                           /\ log[k].tok \notin DOMAIN placed
                 ELSE /\ OpsOn(log[k].tok, "move") = {}
                      /\ OpsOn(log[k].tok, "remove") = {}
                      /\ log[k].tok \notin DOMAIN placed
          /\ pc = "done" =>
               /\ Cardinality(shows) = steps
               /\ CountOps(log, "sleep") = steps
               /\ CountOps(log, "add") = call.num_particles

\* a run of 2 steps has returned: one add failed, and a particle whose first
\* move failed was moved again and removed
C24_Witness ==
    /\ CalledOp = "TypeParticles.play"
    /\ pc = "done"
    /\ CountOps(log, "show") = 2
    /\ \E k \in 1..Len(log) : log[k].op = "add" /\ ~log[k].ok
    /\ \E k \in 1..Len(log) :
         /\ log[k].op = "move" /\ ~log[k].ok
         /\ \E j \in (k + 1)..Len(log) : log[j].op = "move" /\ log[j].tok = log[k].tok
         /\ OpsOn(log[k].tok, "remove") # {}

\* ---------------------------------------------------------------- C25
\* C25: a call of DamageNumber._cleanup on a DamageNumber that was cleaned up
\* already (by play() or by an earlier call), or that was never added, issues
\* no operation on the surface and changes nothing: the log, the surface and
\* the DamageNumber are as before the call
C25_CleanupIdempotent ==
    [][CalledOp' = "DamageNumber._cleanup"
         => (log' = log /\ placed' = placed /\ obj' = obj /\ fails' = fails)]_vars

\* _cleanup() has been called twice on a DamageNumber whose play() had added
\* and removed the text: the log holds the one removal
C25_Witness ==
    /\ CalledOp = "DamageNumber._cleanup"
    /\ call.n = 2
    /\ ~obj.added
    /\ CountOps(log, "remove") = 1
    /\ log[Len(log)].op = "remove"
    /\ DOMAIN placed = {}

\* _cleanup() has been called on a DamageNumber that was built and not played
C25_WitnessNeverAdded ==
    /\ CalledOp = "DamageNumber._cleanup"
    /\ call.n = 1
    /\ prims = <<>>
    /\ log = <<>>

\* ---------------------------------------------------------------- C26
\* s is an initial part of t
IsPrefix(s, t) == Len(s) <= Len(t) /\ \A k \in 1..Len(s) : s[k] = t[k]

\* a second call with the arguments of the first, neither meeting a failure
\* inside the map
SecondCall == "first" \in DOMAIN call

\* C26 as claimed: a second call of a BattleAnimator operation with the same
\* arguments on a map of the same size issues the same operations in the same
\* order as the first, for every attack that is no miss, every heal and every
\* status effect
C26_Deterministic ==
    (/\ SecondCall
     /\ CalledOp = "play_attack_animation" => ~call.is_miss) =>
      /\ IsPrefix(log, call.first)
      /\ pc = "done" => log = call.first

\* C26 amended: the same, for every attack that is no miss and whose damage is
\* above 0, every heal and every status effect (an attack of damage 0 takes
\* the miss path of the damage number, whose moves are random)
C26_DeterministicReplay ==
    (/\ SecondCall
     /\ CalledOp = "play_attack_animation" => (~call.is_miss /\ call.damage > 0)) =>
      /\ IsPrefix(log, call.first)
      /\ pc = "done" => log = call.first

\* a hit on an icon in column 0 has been played a second time to its end,
\* with the operations of the first, two corners of the hit flash being
\* outside the map
C26_Witness ==
    /\ CalledOp = "play_attack_animation"
    /\ call.defender.ico.x = 0
    /\ SecondCall
    /\ pc = "done"
    /\ Len(log) > 20
    /\ log = call.first
    /\ \E k \in 1..Len(log) : log[k].op = "add" /\ ~log[k].ok

\* ---------------------------------------------------------------- C27
\* the icon guard of the operation called has let the target through
PastIcoGuard ==
    /\ CalledOp \in CoordinatorOps
    /\ TargetOf(call).has_ico
    /\ "x" \in TargetOf(call).ico.attrs
    /\ pc \notin {"atk_call", "status_call", "heal_call"}

\* what play_attack_animation plays when it runs to its end
AttackRanToEnd ==
    /\ PlayedOf("HitFlash") # {} <=> (~call.is_miss /\ call.damage > 0)
    /\ PlayedOf("DamageNumber") # {}
    /\ PlayedOf("EffectivityIndicator") # {}
         <=> (~call.is_miss /\ call.effectiveness10 # 10)
    /\ PlayedOf("ScreenShake") # {}
         <=> (call.damage * call.attack.factor10 > 50)

\* C27 as claimed: a BattleAnimator operation that is past its icon guard has
\* no other way out than its natural end: nothing is raised, and when it has
\* returned every primitive of the operation has been played; its loops are
\* bounded, a play_attack_animation issuing at most 12 redraws
C27_RunsToEnd ==
    PastIcoGuard =>
      /\ raised = "none"
      /\ CountOps(log, "show") <= 12
      /\ pc = "done" =>
           CASE call.op = "play_attack_animation" -> AttackRanToEnd
             [] call.op = "play_heal_animation" -> PlayedOf("DamageNumber") # {}
             [] call.op = "play_status_effect_animation" ->
                  PlayedOf("StatusEffectIndicator") # {}

\* the part of C27 that holds: on an icon with x, y, width and height the
\* operation runs to its end, with at most 12 redraws, whatever fails
C27_BoundedOnGoodIcon ==
    (PastIcoGuard /\ WellFormedCall) =>
      /\ raised = "none"
      /\ CountOps(log, "show") <= 12
      /\ CountOps(HFLog, "show") <= 2
      /\ CountOps(DNLog, "show") <= (IF call.op = "play_attack_animation" THEN 6 ELSE 4)
      /\ CountOps(EILog, "show") <= 1
      /\ CountOps(SSLog, "show") <= 6
      /\ CountOps(SEILog, "show") <= 3
      /\ pc = "done" =>
           CASE call.op = "play_attack_animation" -> AttackRanToEnd
             [] call.op = "play_heal_animation" -> PlayedOf("DamageNumber") # {}
             [] call.op = "play_status_effect_animation" ->
                  PlayedOf("StatusEffectIndicator") # {}

\* the scenario attack has returned after 12 redraws
C27_WitnessTwelve ==
    /\ ScenarioCall
    /\ pc = "done"
    /\ CountOps(log, "show") = 12

\* ---------------------------------------------------------------- C28
IsAscii(c) == 0 <= c /\ c < 128

\* C28 as claimed: the particle glyph, the trail glyph and every impact glyph
\* of every entry of TYPE_EFFECT_CONFIG are ASCII characters, and so is every
\* symbol of StatusEffectIndicator.EFFECT_SYMBOLS
C28_AllAscii ==
    pc = "done" =>
      /\ (CalledOp = "get_type_effects" /\ call.type_name \in AttackTypeKeys) =>
           /\ IsAscii(out.particle_char)
           /\ IsAscii(out.trail_char)
           /\ \A k \in 1..Len(out.impact_chars) : IsAscii(out.impact_chars[k])
      /\ (CalledOp = "effect_symbol" /\ call.effect_name \in RecognizedEffects) =>
           IsAscii(out[1])

\* ---------------------------------------------------------------- C29
\* the label of a show() call exists
ShowLabelled == CalledOp = "DamageNumberDisplay.show" /\ pc # "show_call"

\* C29: DamageNumberDisplay.show chooses the text of its label with the
\* priority miss > heal > critical > plain: "MISS" on a miss, else "+" and
\* the amount on a heal, else the amount and "!" on a critical hit, else the
\* amount; 25 gives "25", a critical 50 "50!", a heal of 15 "+15"
C29_ShowText ==
    ShowLabelled =>
      /\ call.is_miss => obj.text = "MISS"
      /\ (~call.is_miss /\ call.is_heal) => obj.text = "+" \o ToString(call.damage)
      /\ (~call.is_miss /\ ~call.is_heal /\ call.is_critical) =>
            obj.text = ToString(call.damage) \o "!"
      /\ (~call.is_miss /\ ~call.is_heal /\ ~call.is_critical) =>
            obj.text = ToString(call.damage)
      /\ (call.damage = 25 /\ ~call.is_miss /\ ~call.is_heal /\ ~call.is_critical) =>
            obj.text = "25"
      /\ (call.damage = 50 /\ ~call.is_miss /\ ~call.is_heal /\ call.is_critical) =>
            obj.text = "50!"
      /\ (call.damage = 15 /\ ~call.is_miss /\ call.is_heal) => obj.text = "+15"

\* a critical heal of 15 has been shown as "+15"
C29_Witness ==
    /\ ShowLabelled
    /\ pc = "done"
    /\ call.damage = 15 /\ call.is_heal /\ call.is_critical /\ ~call.is_miss
    /\ obj.text = "+15"
    /\ Len(log) > 1

\* a missed critical heal has been shown as "MISS"
C29_WitnessMiss ==
    /\ ShowLabelled
    /\ pc = "done"
    /\ call.is_miss /\ call.is_heal /\ call.is_critical
    /\ obj.text = "MISS"

\* ---------------------------------------------------------------- C30
EffectApplied == CalledOp = "StatusEffectAnimation.play_effect_applied"

\* the six keys of EFFECT_VISUALS and the pattern animation of each
PatternOf(effect_name) ==
    CASE effect_name = "paralyzation" -> "spark"
      [] effect_name = "sleep"        -> "float"
      [] effect_name = "burning"      -> "flicker"
      [] effect_name = "poison"       -> "wave"
      [] effect_name = "confusion"    -> "spin"
      [] effect_name = "freezing"     -> "crystallize"
      [] OTHER                        -> "none"

\* C30: play_effect_applied with a name that is not a key of EFFECT_VISUALS
\* creates no token, performs no surface operation and returns without
\* raising; with one of the six known names it dispatches to exactly one
\* pattern animation, that of the name, and no other animation acts
C30_UnknownEffectSkipped ==
    EffectApplied =>
      IF PatternOf(call.effect_name) = "none"
      THEN /\ ntok = 0
           /\ log = <<>>
           /\ placed = <<>>
           /\ prims = <<>>
           /\ raised = "none"
           /\ pc \in {"effect_call", "done"}
      ELSE /\ raised = "none"
           /\ pc = "effect_call" => prims = <<>> /\ log = <<>>
           /\ pc # "effect_call" =>
                /\ prims = <<[cls |-> PatternOf(call.effect_name)]>>
                /\ \A k \in 1..Len(log) : log[k].prim = PatternOf(call.effect_name)
                /\ pc \in {PatternOf(call.effect_name), "done"}

\* play_effect_applied has returned from an unknown name
C30_Witness ==
    /\ EffectApplied
    /\ call.effect_name = "unknown_effect"
    /\ pc = "done"

\* each known name has been animated to the end
C30_WitnessFreezing ==
    /\ EffectApplied /\ call.effect_name = "freezing" /\ pc = "done"
    /\ CountOps(log, "add") = 5 /\ CountOps(log, "remove") >= 1

\* ---------------------------------------------------------------- C31
\* the DamageNumber on the rising path was placed on row y0 >= 1
DNStartedBelowTop == DNRising /\ Len(DNLog) > 0 /\ DNLog[1].ok /\ DNLog[1].y >= 1

\* C31: in DamageNumber.play on the rising path started at row y0 >= 1 the
\* tracked row of the text never goes below 1; when no move fails exactly
\* min(steps, y0 - 1) upward moves are issued; started at row 1 no move is
\* issued at all and all steps redraws still happen
C31_NeverAboveRowOne ==
    DNStartedBelowTop =>
      LET s == DNLog
          y0 == s[1].y
          tok == s[1].tok
          moves == CountOps(s, "move")
      IN  /\ obj.y >= 1
          /\ RowAfter(s, Len(s)) >= 1
          /\ tok \in DOMAIN placed => placed[tok][2] = obj.y /\ placed[tok][2] >= 1
          /\ moves <= y0 - 1
          /\ y0 = 1 => moves = 0
          /\ (CalledOp = "DamageNumber.play" /\ pc = "done") =>
               LET steps == DamageNumberSteps(loc.duration100)
               IN  /\ ~HasFailed("move") => moves = Min(steps, y0 - 1)
                   /\ y0 = 1 => CountOps(s, "show") = steps

\* a text started on row 5 with 3 steps has returned after 3 moves, fewer
\* than the 4 rows above it down to row 1
C31_Witness ==
    /\ DNStartedBelowTop
    /\ CalledOp = "DamageNumber.play" /\ pc = "done"
    /\ DNLog[1].y = 5
    /\ DamageNumberSteps(loc.duration100) = 3
    /\ ~HasFailed("move")
    /\ CountOps(DNLog, "move") = 3
    /\ obj.y = 2

\* a text started on row 1 has returned after 5 redraws and no move
C31_WitnessRowOne ==
    /\ DNStartedBelowTop
    /\ CalledOp = "DamageNumber.play" /\ pc = "done"
    /\ DNLog[1].y = 1
    /\ CountOps(DNLog, "move") = 0
    /\ CountOps(DNLog, "show") = 5

\* the damage number of an attack on an icon in the top row, anchored on the
\* clamped row 1, has been redrawn without a move
C31_WitnessClamped ==
    /\ DNStartedBelowTop
    /\ CalledOp = "play_attack_animation"
    /\ call.defender.ico.y = 0
    /\ pc = "atk_eff"
    /\ DNLog[1].y = 1
    /\ CountOps(DNLog, "move") = 0
    /\ CountOps(DNLog, "show") >= 3

\* ---------------------------------------------------------------- C32
\* the texts of the damage numbers played so far
DamageNumberTexts == {prims[i].text : i \in PlayedOf("DamageNumber")}

\* C32: when is_miss is true play_attack_animation runs neither the hit flash
\* nor the effectiveness label; the only primitives run are the damage number,
\* showing "MISS" whatever the damage, and the screen shake, which still runs
\* on a miss whenever damage * attack.factor is above 5, the intensity being
\* classified from the raw damage
C32_MissRunsNumberAndShake ==
    (CalledOp = "play_attack_animation" /\ call.is_miss) =>
      /\ \A i \in 1..Len(prims) : prims[i].cls \in {"DamageNumber", "ScreenShake"}
      /\ \A k \in 1..Len(log) : log[k].prim \in {"DamageNumber", "ScreenShake"}
      /\ HFLog = <<>> /\ EILog = <<>>
      /\ DamageNumberTexts \subseteq {"MISS"}
      /\ \A i \in PlayedOf("DamageNumber") : prims[i].damage = 0
      /\ (WellFormedCall /\ PastDamageNumber) =>
            Cardinality(PlayedOf("DamageNumber")) = 1
      /\ (WellFormedCall /\ pc \in {"ss_play", "done"}) =>
            /\ (PlayedOf("ScreenShake") # {}) = (call.damage * call.attack.factor10 > 50)
            /\ \A i \in PlayedOf("ScreenShake") :
                 prims[i].intensity =
                   (IF call.damage * call.attack.factor10 <= 100 THEN "STRONG"
                    ELSE "CRITICAL")

\* a missed attack of damage 12 and effectiveness 1.3 has returned: "MISS"
\* was shown and the screen was shaken
C32_Witness ==
    /\ CalledOp = "play_attack_animation" /\ call.is_miss
    /\ call.damage = 12 /\ call.effectiveness10 = 13
    /\ pc = "done" /\ raised = "none"
    /\ Len(prims) = 2
    /\ prims[1].cls = "DamageNumber" /\ prims[1].text = "MISS"
    /\ prims[2].cls = "ScreenShake" /\ prims[2].intensity = "CRITICAL"
    /\ CountOps(SSLog, "show") = 6

\* a missed attack of damage 0 has returned without a shake
C32_WitnessNoShake ==
    /\ CalledOp = "play_attack_animation" /\ call.is_miss
    /\ call.damage = 0
    /\ pc = "done" /\ raised = "none"
    /\ Len(prims) = 1 /\ prims[1].text = "MISS"
    /\ CountOps(DNLog, "show") = 6

\* ---------------------------------------------------------------- C33
\* an attack that did not miss and did no damage
ZeroDamageHit ==
    CalledOp = "play_attack_animation" /\ ~call.is_miss /\ call.damage = 0

\* C33: when is_miss is false and damage is 0 play_attack_animation runs no
\* hit flash and the damage number takes the miss path, "MISS" in grey with
\* the horizontal oscillation, built as the damage number of a real miss is;
\* the effectiveness label still runs if effectiveness is not 1
C33_ZeroDamageAsMiss ==
    (ZeroDamageHit /\ WellFormedCall) =>
      /\ PlayedOf("HitFlash") = {} /\ HFLog = <<>>
      /\ \A i \in PlayedOf("DamageNumber") :
           /\ prims[i].text = "MISS" /\ prims[i].color = "grey"
           /\ prims[i].damage = 0 /\ ~prims[i].is_heal /\ ~prims[i].is_critical
           /\ i = 1
      /\ \A k \in 1..Len(DNLog) :
           DNLog[k].op = "move" => (DNLog[k].dy = 0 /\ DNLog[k].dx \in {-1, 1})
      /\ (PastDamageNumber /\ pc \notin {"dn_play", "dn_miss", "dn_cleanup"}) =>
           /\ PlayedOf("DamageNumber") = {1}
           /\ DNLog[1].ok => /\ CountOps(DNLog, "show") = 6
                             /\ CountOps(DNLog, "move") = 6
                             /\ DNLog[Len(DNLog)].op = "remove"
      /\ PastLabel => (PlayedOf("EffectivityIndicator") # {}) = (call.effectiveness10 # 10)
      /\ call.effectiveness10 = 10 => EILog = <<>>

\* an attack of damage 0 and effectiveness 0.5 has returned: "MISS" was
\* oscillated and the label "WEAK..." shown
C33_Witness ==
    /\ ZeroDamageHit
    /\ call.effectiveness10 = 5
    /\ pc = "done" /\ raised = "none"
    /\ Len(prims) = 2
    /\ prims[1].cls = "DamageNumber" /\ prims[1].text = "MISS"
    /\ prims[2].cls = "EffectivityIndicator"
    /\ CountOps(DNLog, "move") = 6
    /\ CountOps(EILog, "show") = 1

\* ---------------------------------------------------------------- C34
\* the tokens the log speaks of
LoggedTokens == {log[k].tok : k \in {j \in 1..Len(log) : "tok" \in DOMAIN log[j]}}

\* the places in the log of the operations on a token
TokenOps(tok) == {k \in 1..Len(log) : "tok" \in DOMAIN log[k] /\ log[k].tok = tok}

\* control is outside every primitive
OutsidePrimitives == pc \in {"done", "idle", "atk_dmg", "atk_eff", "atk_shake"}

\* C34: in every primitive each token follows the protocol place, then zero
\* or more moves, then remove: the first operation on a token is its only
\* add; a token whose add failed receives no move and no remove; a token whose
\* add succeeded is removed exactly once, at the latest when its primitive
\* returns; no move and no other operation follows the remove
C34_TokenProtocol ==
    \A tok \in LoggedTokens :
      LET ops == TokenOps(tok)
          first == CHOOSE k \in ops : \A j \in ops : k <= j
          last == CHOOSE k \in ops : \A j \in ops : j <= k
          removes == OpsOn(tok, "remove")
      IN  /\ log[first].op = "add"
          /\ \A k \in ops \ {first} : log[k].op \in {"move", "remove"}
          /\ ~log[first].ok => ops = {first}
          /\ Cardinality(removes) <= 1
          /\ \A k \in removes : k = last
          /\ (tok \in DOMAIN placed) = (log[first].ok /\ removes = {})
          /\ (OutsidePrimitives /\ log[first].ok) => Cardinality(removes) = 1

\* a particle run has returned: one particle was never placed and has its add
\* alone, another was placed, moved and removed once
C34_Witness ==
    /\ CalledOp = "TypeParticles.play"
    /\ pc = "done"
    /\ \E t1, t2 \in LoggedTokens :
         /\ TokenOps(t1) = OpsOn(t1, "add")
         /\ OpsOn(t2, "move") # {}
         /\ Cardinality(OpsOn(t2, "remove")) = 1

\* a rising damage number whose move failed has been removed once, and a
\* second _cleanup has left the log alone
C34_WitnessCleanupTwice ==
    /\ CalledOp = "DamageNumber._cleanup"
    /\ HasFailed("move")
    /\ Cardinality(OpsOn(1, "remove")) = 1

\* ---------------------------------------------------------------- C35
ProjectileRuns ==
    CalledOp = "AttackAnimationSystem._projectile_animation" /\ pc # "proj_call"

\* the trail tokens placed
TrailsPlaced == DOMAIN placed \ {loc.projectile}

\* the places in the log of the adds of the projectile
ProjectileAdds == OpsOn(loc.projectile, "add")

\* C35: in _projectile_animation at most 3 trail tokens and at most 1
\* projectile token are placed at every point (the projectile is never placed
\* again before it is removed); at most 2 trail tokens remain placed at the
\* end of each step, the projectile being removed; a failed placement of the
\* projectile ends the loop (no add follows it); after the return neither
\* the projectile nor a trail token is placed and the last surface operation
\* is a redraw
C35_ProjectileTokens ==
    ProjectileRuns =>
      /\ Cardinality(TrailsPlaced) <= 3
      /\ TrailsPlaced = {loc.trail_chars[k] : k \in 1..Len(loc.trail_chars)}
      /\ \A k \in ProjectileAdds :
           \/ \A j \in 1..(k - 1) : ~(log[j].op = "add" /\ log[j].tok = loc.projectile)
           \/ \E j \in 1..(k - 1) :
                /\ log[j] = OpRemove("projectile", loc.projectile)
                /\ \A m \in (j + 1)..(k - 1) :
                     ~(log[m].op = "add" /\ log[m].tok = loc.projectile)
      /\ (loc.projectile \in DOMAIN placed) = (pc = "proj_shown")
      /\ pc \in {"proj_loop", "proj_end"} => Cardinality(TrailsPlaced) <= 2
      /\ \A k \in ProjectileAdds :
           ~log[k].ok => /\ pc \in {"proj_end", "done"}
                         /\ \A j \in (k + 1)..Len(log) : log[j].op \in {"remove", "show"}
      /\ pc = "done" =>
           /\ placed = <<>>
           /\ Len(log) > 0
           /\ log[Len(log)] = OpShow("projectile")

\* the projectile is shown with 3 trail tokens behind it
C35_Witness ==
    /\ ProjectileRuns
    /\ pc = "proj_shown"
    /\ Cardinality(TrailsPlaced) = 3
    /\ loc.projectile \in DOMAIN placed

\* a flight has returned after a failed placement of the projectile that left
\* 2 trail tokens to remove
C35_WitnessFailed ==
    /\ ProjectileRuns
    /\ pc = "done"
    /\ \E k \in ProjectileAdds : ~log[k].ok
    /\ CountOps(log, "remove") >= 5
    /\ log[Len(log) - 1].op = "remove" /\ log[Len(log) - 2].op = "remove"
    /\ log[Len(log) - 1].tok # loc.projectile /\ log[Len(log) - 2].tok # loc.projectile

\* ---------------------------------------------------------------- C36
IsAddOp(e) == e.op = "add"

\* the placements of the label, in the order issued
LabelAdds == SelectSeq(log, IsAddOp)

\* the places in the log of the re-placements of the label
Replacements == {k \in 2..Len(log) : log[k].op = "add"}

\* C36: in DamageNumberDisplay.show, the first placement at (x, y) having
\* succeeded, the label is placed again at rows y - 1, y - 2, y - 3 in that
\* order, each placement following a removal and, when it succeeds, followed
\* by one redraw; it is never placed at a negative row; the loop ends at the
\* first negative row or failed placement; in every case the label is not
\* placed when show returns and the last operation is a redraw following the
\* removal; the first placement having failed, no redraw is issued at all
C36_ShowFloatsUp ==
    (ShowLabelled /\ Len(log) > 0) =>
      LET adds == LabelAdds
          failed == \E k \in Replacements : ~log[k].ok
      IN  /\ log[1] = OpAdd("DamageNumberDisplay", obj.tok, call.x, call.y, log[1].ok)
          /\ ~log[1].ok => (Len(log) = 1 /\ pc = "done" /\ placed = <<>>)
          /\ log[1].ok =>
               /\ Len(adds) <= 4
               /\ \A n \in 2..Len(adds) :
                    /\ adds[n].x = call.x /\ adds[n].y = call.y - (n - 1)
                    /\ adds[n].y >= 0
                    /\ adds[n].tok = obj.tok
                    /\ ~adds[n].ok => n = Len(adds)
               /\ \A k \in Replacements :
                    /\ log[k - 1] = OpRemove("DamageNumberDisplay", obj.tok)
                    /\ log[k].ok => /\ k < Len(log)
                                    /\ log[k + 1] = OpShow("DamageNumberDisplay")
                    /\ ~log[k].ok => pc \in {"show_end", "done"}
               /\ \A k \in 1..Len(log) :
                    log[k].op = "show" =>
                      \/ log[k - 1].op = "add" /\ log[k - 1].ok /\ k - 1 \in Replacements
                      \/ pc = "done" /\ k = Len(log)
               /\ pc = "done" =>
                    /\ placed = <<>>
                    /\ log[Len(log)] = OpShow("DamageNumberDisplay")
                    /\ log[Len(log) - 1] = OpRemove("DamageNumberDisplay", obj.tok)
                    /\ ~failed => Len(adds) - 1 = Min(3, call.y)
                    /\ CountOps(log, "show")
                         = 1 + Cardinality({k \in Replacements : log[k].ok})

\* a label first placed on row 5 has been placed again on rows 4, 3 and 2
\* and show has returned after 4 redraws
C36_Witness ==
    /\ ShowLabelled /\ pc = "done"
    /\ call.y = 5
    /\ Len(LabelAdds) = 4
    /\ LabelAdds[4].ok /\ LabelAdds[4].y = 2
    /\ CountOps(log, "show") = 4

\* a label first placed on row 1 has been placed again on row 0 only
C36_WitnessTopRow ==
    /\ ShowLabelled /\ pc = "done"
    /\ call.y = 1
    /\ Len(LabelAdds) = 2 /\ LabelAdds[2].ok /\ LabelAdds[2].y = 0
    /\ CountOps(log, "show") = 2

\* show has returned after a failed first placement inside the map
C36_WitnessFirstFailed ==
    /\ ShowLabelled /\ pc = "done"
    /\ InBounds(call.x, call.y)
    /\ Len(log) = 1 /\ ~log[1].ok

\* show has returned after a failed second placement
C36_WitnessBreak ==
    /\ ShowLabelled /\ pc = "done"
    /\ Len(LabelAdds) = 3 /\ ~LabelAdds[3].ok
    /\ CountOps(log, "show") = 2

\* a flight of 5 steps has returned without a failure: 4 trail tokens were
\* placed, the oldest removed in the loop and the others at the end
C35_WitnessFullFlight ==
    /\ ProjectileRuns
    /\ pc = "done"
    /\ loc.steps = 5 /\ loc.i = 5
    /\ ~HasFailed("add")
    /\ CountOps(log, "add") = 9
    /\ CountOps(log, "remove") = 9

====
